---- MODULE Spec2Model ----
(***************************************************************************)
(* Model of the admin "boost view" machinery of django-boosted:            *)
(*   - django_boosted: AdminBoostModel.__init__ / get_urls,                *)
(*     setup_boost_views and the ViewGenerator mixins;                     *)
(*   - django_admin_boost: the admin_boost_object_view decorator, the      *)
(*     AdminBoostMixin, and the older AdminBoostModel / ViewGenerator.     *)
(* Python values are tagged records, strings are sequences of tokens, and  *)
(* dicts are functions from key to value.                                  *)
(***************************************************************************)
EXTENDS Integers, Sequences, FiniteSets, TLC

VARIABLES
    cls,            \* the admin class: class-level boost_views and decorated methods
    instances,      \* the admin instances constructed so far (a sequence)
    urls,           \* what the last get_urls call returned, and for which instance
    req,            \* the last request dispatched to a view
    resp,           \* its outcome: a response or a raised exception
    calls,          \* the calls the view made while handling it, in order
    user_messages,  \* messages recorded through message_user during it
    base_fields     \* the declared fields of the form class and their widgets

vars == <<cls, instances, urls, req, resp, calls, user_messages, base_fields>>

----------------------------------------------------------------------------
(* Python values.                                                          *)

PNone == [t |-> "None"]
PBool(b) == [t |-> "bool", b |-> b]
PStr(s) == [t |-> "str", s |-> s]

\* Python truthiness: None, False and "" are falsy.
Truthy(v) ==
    CASE v.t = "None" -> FALSE
      [] v.t = "bool" -> v.b
      [] v.t = "str" -> Len(v.s) > 0
      [] OTHER -> TRUE

\* Python `a or b`.
PyOr(a, b) == IF Truthy(a) THEN a ELSE b

\* dict.get(k, default) and dict.update(e).
DictGet(d, k, default) == IF k \in DOMAIN d THEN d[k] ELSE default
DictUpdate(d, e) ==
    [k \in (DOMAIN d) \cup (DOMAIN e) |-> IF k \in DOMAIN e THEN e[k] ELSE d[k]]

\* A replace that stops after the first underscore.
Hyphenate_FirstOnly(s) ==
    [i \in 1..Len(s) |->
        IF s[i] = "_" /\ (\A j \in 1..(i - 1) : s[j] # "_") THEN "-" ELSE s[i]]

\* str.replace("_", "-"): every underscore becomes a hyphen.
Hyphenate(s) == [i \in 1..Len(s) |-> IF s[i] = "_" THEN "-" ELSE s[i]]

\* str.startswith("_").
StartsWithUnderscore(s) == Len(s) > 0 /\ s[1] = "_"

\* str(v) as an f-string renders it.
Format(v) ==
    CASE v.t = "str" -> v.s
      [] v.t = "bool" -> IF v.b THEN <<"True">> ELSE <<"False">>
      [] OTHER -> <<"None">>

----------------------------------------------------------------------------
(* Names, labels and templates the admin classes are drawn from.           *)

N_stu == <<"s", "_", "t", "_", "u">>
N_w == <<"w">>
N_p == <<"_", "p">>
N_ghost == <<"g">>
AttrNames == {N_stu, N_w, N_p}

\* dir() lists attribute names sorted; "_" sorts before the lowercase letters.
DirOrder == <<N_p, N_stu, N_w>>

ViewTypes == {"message", "form", "list", "json", "redirect", "confirm", "adminform"}
UnknownViewType == "chart"

Permissions == {<<"view">>, <<"change">>, <<"delete">>, <<"add">>}

\* The form class an admin declares: two model-choice fields (they have a
\* queryset) and a plain one, each with the widget its field type comes with.
DeclaredFields ==
    [company |-> [queryset |-> TRUE, widget |-> "Select"],
     owner |-> [queryset |-> TRUE, widget |-> "Select"],
     note |-> [queryset |-> FALSE, widget |-> "TextInput"]]

\* What an admin class declares besides its views: `declared` holds the
\* changeform_actions attribute when the class has one, `perms` the
\* has_<action>_permission attributes and `handles` the actions that have a
\* handle_<action> method.
NoAttrs == [declared |-> <<>>, perms |-> <<>>, handles |-> {}]

GivenFragment == <<"x", "_", "y">>
GivenTemplate == <<"custom.html">>

AppLabel == <<"tests_app">>
ModelName == <<"country">>

----------------------------------------------------------------------------
(* django_boosted: the view generators (admin/views/*.py).  A generated    *)
(* view is a record of what its closure captured, plus the                 *)
(* _admin_boost_config attribute set on it.                                *)

T_message == <<"admin_boost/message.html">>
T_form == <<"admin_boost/admin_boost_form.html">>
T_change_list == <<"admin_boost/change_list.html">>
T_confirm == <<"admin_boost/confirm.html">>
T_change_form == <<"admin_boost/change_form.html">>

ViewConfig(template_name, requires_object, permission, path_fragment) ==
    [template_name |-> template_name, requires_object |-> requires_object,
     permission |-> permission, path_fragment |-> path_fragment]

View(wrapper, view_func, label, template_name, requires_object, cfg) ==
    [wrapped |-> TRUE, wrapper |-> wrapper, view_func |-> view_func,
     label |-> label, template_name |-> template_name,
     requires_object |-> requires_object, config |-> cfg]

\* A method setup_boost_views left as it was: the plain bound method.
Unwrapped(attr) == [wrapped |-> FALSE, view_func |-> attr]

\* A default that replaces only a missing fragment, not an empty one.
DefaultFragment_NoneOnly(path_fragment, func_name) ==
    IF path_fragment = PNone THEN PStr(Hyphenate(func_name)) ELSE path_fragment

\* path_fragment or view_func.__name__.replace("_", "-")
DefaultFragment(path_fragment, func_name) ==
    PyOr(path_fragment, PStr(Hyphenate(func_name)))

FullConfig(label, path_fragment, permission, view_type, requires_object) ==
    [label |-> label, path_fragment |-> path_fragment, permission |-> permission,
     view_type |-> PStr(<<view_type>>), requires_object |-> requires_object,
     show_in_object_tools |-> PBool(TRUE)]

_create_view(view_func, label, config) ==
    View("create_view", view_func, label, config.template_name,
         config.requires_object, PNone)

_generate_admin_custom_view(view_func, label, config) ==
    [_create_view(view_func, label, config) EXCEPT
        !.config = [label |-> label,
                    path_fragment |-> DefaultFragment(config.path_fragment, view_func),
                    permission |-> config.permission]]

generate_admin_custom_message_view(view_func, label, kw) ==
    LET template_name == DictGet(kw, "template_name", PStr(T_message))
        path_fragment == DictGet(kw, "path_fragment", PNone)
        requires_object == DictGet(kw, "requires_object", PBool(FALSE))
        permission == DictGet(kw, "permission", PStr(<<"view">>))
        config == ViewConfig(template_name, requires_object, permission, path_fragment)
        wrapper == _generate_admin_custom_view(view_func, label, config)
    IN [wrapper EXCEPT !.config = DictUpdate(@,
            [view_type |-> PStr(<<"message">>), requires_object |-> requires_object,
             show_in_object_tools |-> PBool(TRUE)])]

generate_admin_custom_form_view(view_func, label, kw) ==
    LET template_name == DictGet(kw, "template_name", PStr(T_form))
        path_fragment == DictGet(kw, "path_fragment", PNone)
        requires_object == DictGet(kw, "requires_object", PBool(TRUE))
        permission == DictGet(kw, "permission", PStr(<<"view">>))
        config == ViewConfig(template_name, requires_object, permission, path_fragment)
        wrapper == _generate_admin_custom_view(view_func, label, config)
    IN [wrapper EXCEPT !.config =
            FullConfig(label, DefaultFragment(path_fragment, view_func),
                       permission, "form", requires_object)]

generate_admin_custom_json_view(view_func, label, kw) ==
    LET _template_name == DictGet(kw, "_template_name", PNone)
        path_fragment == DictGet(kw, "path_fragment", PNone)
        requires_object == DictGet(kw, "requires_object", PBool(FALSE))
        permission == DictGet(kw, "permission", PStr(<<"view">>))
    IN View("json", view_func, label, _template_name, requires_object,
            FullConfig(label, DefaultFragment(path_fragment, view_func),
                       permission, "json", requires_object))

_generate_redirect_view(view_func, label, config) ==
    LET base_wrapper == _generate_admin_custom_view(view_func, label, config)
    IN View("redirect", view_func, label, config.template_name,
            config.requires_object, base_wrapper.config)

generate_admin_custom_redirect_view(view_func, label, kw) ==
    LET template_name == DictGet(kw, "template_name", PStr(T_message))
        path_fragment == DictGet(kw, "path_fragment", PNone)
        requires_object == DictGet(kw, "requires_object", PBool(FALSE))
        permission == DictGet(kw, "permission", PStr(<<"view">>))
        config == ViewConfig(template_name, requires_object, permission, path_fragment)
        wrapper == _generate_redirect_view(view_func, label, config)
    IN [wrapper EXCEPT !.config = DictUpdate(@,
            [view_type |-> PStr(<<"redirect">>), requires_object |-> requires_object,
             show_in_object_tools |-> PBool(TRUE)])]

generate_admin_custom_list_view(view_func, label, kw) ==
    LET template_name == DictGet(kw, "template_name", PStr(T_change_list))
        path_fragment == DictGet(kw, "path_fragment", PNone)
        requires_object == DictGet(kw, "requires_object", PBool(FALSE))
        permission == DictGet(kw, "permission", PStr(<<"view">>))
    IN View("list", view_func, label, template_name, requires_object,
            FullConfig(label, DefaultFragment(path_fragment, view_func),
                       permission, "list", requires_object))

generate_admin_custom_confirm_view(view_func, label, kw) ==
    LET template_name == DictGet(kw, "template_name", PStr(T_confirm))
        path_fragment == DictGet(kw, "path_fragment", PNone)
        requires_object == DictGet(kw, "requires_object", PBool(FALSE))
        permission == DictGet(kw, "permission", PStr(<<"view">>))
    IN View("confirm", view_func, label, template_name, requires_object,
            FullConfig(label, DefaultFragment(path_fragment, view_func),
                       permission, "confirm", requires_object))

generate_admin_custom_adminform_view(view_func, label, kw) ==
    LET template_name == DictGet(kw, "template_name", PStr(T_change_form))
        path_fragment == DictGet(kw, "path_fragment", PNone)
        requires_object == DictGet(kw, "requires_object", PBool(TRUE))
        permission == DictGet(kw, "permission", PStr(<<"view">>))
    IN View("adminform", view_func, label, template_name, requires_object,
            FullConfig(label, DefaultFragment(path_fragment, view_func),
                       permission, "adminform", requires_object))

\* getattr(view_generator, f"generate_admin_custom_{view_type}_view", None):
\* the ViewGenerator class combines the seven mixins.
HasGenerator(view_type) == view_type \in ViewTypes

generator_method(view_type, view_func, label, kw) ==
    CASE view_type = "message" -> generate_admin_custom_message_view(view_func, label, kw)
      [] view_type = "form" -> generate_admin_custom_form_view(view_func, label, kw)
      [] view_type = "list" -> generate_admin_custom_list_view(view_func, label, kw)
      [] view_type = "json" -> generate_admin_custom_json_view(view_func, label, kw)
      [] view_type = "redirect" -> generate_admin_custom_redirect_view(view_func, label, kw)
      [] view_type = "confirm" -> generate_admin_custom_confirm_view(view_func, label, kw)
      [] view_type = "adminform" -> generate_admin_custom_adminform_view(view_func, label, kw)

----------------------------------------------------------------------------
(* django_boosted: setup_boost_views (admin/views/setup.py).               *)

\* len(params) > 2 and "obj" in params[2:], on the unbound method's signature.
InferRequiresObject(params) ==
    Len(params) > 2 /\ \E i \in 3..Len(params) : params[i] = "obj"

ResolveRequiresObject(meta) ==
    IF meta.requires_object = PNone
    THEN PBool(InferRequiresObject(meta.params))
    ELSE meta.requires_object

SetupKwargs(meta) ==
    LET kwargs == [path_fragment |-> meta.path_fragment,
                   requires_object |-> ResolveRequiresObject(meta),
                   permission |-> meta.permission]
        template_key == IF meta.view_type = "json" THEN "_template_name"
                        ELSE "template_name"
    IN IF meta.template_name # PNone
       THEN DictUpdate(kwargs, [k \in {template_key} |-> meta.template_name])
       ELSE kwargs

\* The attributes of the instance after the loop: each decorated public
\* method whose view type has a generator is replaced by the generated view.
setup_boost_views(methods) ==
    [a \in DOMAIN methods |->
        IF StartsWithUnderscore(a) \/ ~HasGenerator(methods[a].view_type)
        THEN Unwrapped(a)
        ELSE generator_method(methods[a].view_type, a, methods[a].label,
                              SetupKwargs(methods[a]))]

----------------------------------------------------------------------------
(* django_boosted: AdminBoostModel (admin/model.py).                       *)

MaxInstances == 2

NoUrls == [inst |-> 0, names |-> <<>>, patterns |-> <<>>]
NoRequest == [kind |-> "none"]
NoResponse == [kind |-> "none"]

\* The decorated methods in the order dir(self) lists them.
DecoratedInDirOrder(methods) == SelectSeq(DirOrder, LAMBDA a : a \in DOMAIN methods)

\* for attr_name in dir(self): ... self.boost_views += (config["name"],)
ScannedNames(methods) ==
    LET attrs == DecoratedInDirOrder(methods)
    IN [k \in 1..Len(attrs) |-> methods[attrs[k]].name]

\* __init__.  `+=` on a tuple builds a new tuple bound to the instance; on a
\* list it extends the list the class attribute holds, in place, and the
\* instance attribute is that same list.
Construct ==
    /\ cls.package = "django_boosted"
    /\ Len(instances) < MaxInstances
    /\ req = NoRequest
    /\ LET added == ScannedNames(cls.methods)
           isList == cls.boost_views.kind = "list"
           inst == [bv_shared |-> isList,
                    bv_items |-> IF isList THEN <<>>
                                 ELSE cls.boost_views.items \o added,
                    attrs |-> setup_boost_views(cls.methods)]
       IN /\ instances' = Append(instances, inst)
          /\ cls' = IF isList
                    THEN [cls EXCEPT !.boost_views.items = @ \o added]
                    ELSE cls
    /\ UNCHANGED <<urls, req, resp, calls, user_messages, base_fields>>

\* self.boost_views as instance i reads it.
BoostViewsOf(i) ==
    IF instances[i].bv_shared THEN cls.boost_views.items ELSE instances[i].bv_items

\* getattr(self, view_name, None) is not None.
HasAttr(i, view_name) == view_name \in DOMAIN instances[i].attrs

\* tools.get_boost_view_names: list(self.boost_views or []).
tools_get_boost_view_names(i) == BoostViewsOf(i)

\* tools.get_boost_view_config: the view's _admin_boost_config, or None.
tools_get_boost_view_config(i, view_name) ==
    IF HasAttr(i, view_name) /\ instances[i].attrs[view_name].wrapped
    THEN instances[i].attrs[view_name].config
    ELSE PNone

\* `if config`: None and the empty dict are falsy.
ConfigTruthy(config) == config # PNone /\ DOMAIN config # {}

\* super().get_urls(): the framework's own admin URLs.
InheritedUrls ==
    << [route |-> <<>>, name |-> AppLabel \o <<"_">> \o ModelName \o <<"_changelist">>,
        callback |-> <<"changelist_view">>],
       [route |-> <<"add", "/">>, name |-> AppLabel \o <<"_">> \o ModelName \o <<"_add">>,
        callback |-> <<"add_view">>],
       [route |-> <<"<path:object_id>", "/", "change", "/">>,
        name |-> AppLabel \o <<"_">> \o ModelName \o <<"_change">>,
        callback |-> <<"change_view">>] >>

UrlName(view_name) == AppLabel \o <<"_">> \o ModelName \o <<"_">> \o view_name

\* A get_urls that routes every boost view with an object id.
BoostPattern_AlwaysObject(config, view_name) ==
    LET path_fragment == PyOr(DictGet(config, "path_fragment", PNone),
                              PStr(Hyphenate(view_name)))
    IN [route |-> <<"<path:object_id>", "/">> \o Format(path_fragment) \o <<"/">>,
        name |-> UrlName(view_name),
        callback |-> view_name]

BoostPattern(config, view_name) ==
    LET path_fragment == PyOr(DictGet(config, "path_fragment", PNone),
                              PStr(Hyphenate(view_name)))
        requires_object == DictGet(config, "requires_object", PBool(FALSE))
    IN [route |-> IF Truthy(requires_object)
                  THEN <<"<path:object_id>", "/">> \o Format(path_fragment) \o <<"/">>
                  ELSE Format(path_fragment) \o <<"/">>,
        name |-> UrlName(view_name),
        callback |-> view_name]

get_urls(i) ==
    LET names == tools_get_boost_view_names(i)
        kept == SelectSeq(names, LAMBDA n :
                    HasAttr(i, n) /\ ConfigTruthy(tools_get_boost_view_config(i, n)))
        boost_urls == [k \in 1..Len(kept) |->
                          BoostPattern(tools_get_boost_view_config(i, kept[k]), kept[k])]
    IN boost_urls \o InheritedUrls

GetUrls ==
    \E i \in 1..Len(instances) :
        /\ cls.package = "django_boosted"
        /\ req = NoRequest
        /\ urls' = [inst |-> i, names |-> tools_get_boost_view_names(i),
                    patterns |-> get_urls(i)]
        /\ UNCHANGED <<cls, instances, req, resp, calls, user_messages, base_fields>>

----------------------------------------------------------------------------
(* The admin classes construction and URL registration are checked on.     *)

Meta(name, view_type, template_name, path_fragment, requires_object, permission, params) ==
    [name |-> name, view_type |-> view_type, label |-> PStr(<<"Label ">> \o name),
     template_name |-> template_name, path_fragment |-> path_fragment,
     requires_object |-> requires_object, permission |-> PStr(permission),
     params |-> params]

ParamLists ==
    { <<"self", "request">>, <<"self", "request", "obj">>,
      <<"self", "obj">>, <<"self", "request", "pk", "obj">> }

FragmentChoices == {PNone, PStr(<<>>), PStr(GivenFragment)}
RequiresObjectChoices == {PNone, PBool(TRUE), PBool(FALSE)}

MetaChoices_stu ==
    { Meta(N_stu, vt, PNone, pf, ro, <<"view">>, ps) :
        vt \in ViewTypes \cup {UnknownViewType}, pf \in FragmentChoices,
        ro \in RequiresObjectChoices, ps \in ParamLists }

MetaChoices_w ==
    { Meta(N_w, "message", PStr(GivenTemplate), PNone, PNone, <<"view">>,
           <<"self", "request">>),
      Meta(N_w, "json", PStr(GivenTemplate), PStr(GivenFragment), PNone, <<"change">>,
           <<"self", "request", "obj">>),
      Meta(N_w, UnknownViewType, PNone, PNone, PNone, <<"view">>,
           <<"self", "request">>) }

MetaChoices_p ==
    { Meta(N_p, "redirect", PNone, PNone, PBool(TRUE), <<"view">>,
           <<"self", "request", "obj">>) }

MethodTables ==
    UNION { { [a \in D |-> CASE a = N_stu -> m1 [] a = N_w -> m2 [] OTHER -> m3] :
                m1 \in MetaChoices_stu, m2 \in MetaChoices_w, m3 \in MetaChoices_p }
            : D \in SUBSET AttrNames }

\* boost_views as the class declares it: the default empty tuple, or names
\* (of decorated methods, or of no attribute at all) in a tuple or a list.
DeclaredBoostViews ==
    { [kind |-> k, items |-> it] :
        k \in {"tuple", "list"}, it \in {<<>>, <<N_stu>>, <<N_ghost, N_w>>} }

SetupClasses ==
    { [package |-> "django_boosted", boost_views |-> bv, methods |-> mt,
       attrs |-> NoAttrs] :
        bv \in DeclaredBoostViews, mt \in MethodTables }


InitSetup ==
    /\ cls \in SetupClasses
    /\ instances = <<>>
    /\ urls = NoUrls
    /\ req = NoRequest
    /\ resp = NoResponse
    /\ calls = <<>>
    /\ user_messages = <<>>
    /\ base_fields = DeclaredFields

NextSetup == Construct \/ GetUrls

SpecSetup == InitSetup /\ [][NextSetup]_vars

----------------------------------------------------------------------------
(* django_admin_boost: the older AdminBoostModel (admin/model.py) and its  *)
(* ViewGenerator (admin/views.py), whose generator methods take their      *)
(* arguments by position (SpecLegacy).                                     *)

\* admin/views.py ViewGenerator._create_view
legacy_create_view(view_func, label, template_name, requires_object, permission) ==
    [wrapped |-> TRUE, wrapper |-> "legacy_create_view", view_func |-> view_func,
     label |-> label, template_name |-> template_name,
     requires_object |-> requires_object, config |-> PNone]

legacy_generate_admin_custom_list_view(view_func, label, template_name, path_fragment, permission) ==
    [legacy_create_view(view_func, label, template_name, PBool(FALSE), permission)
     EXCEPT !.config =
        [label |-> label,
         path_fragment |-> PyOr(path_fragment, PStr(Hyphenate(view_func))),
         permission |-> permission, view_type |-> PStr(<<"list">>),
         requires_object |-> PBool(FALSE), show_in_object_tools |-> PBool(TRUE)]]

legacy_generate_admin_custom_form_view(view_func, label, template_name, path_fragment, permission) ==
    [legacy_create_view(view_func, label, template_name, PBool(TRUE), permission)
     EXCEPT !.config =
        [label |-> label,
         path_fragment |-> PyOr(path_fragment, PStr(Hyphenate(view_func))),
         permission |-> permission, view_type |-> PStr(<<"form">>),
         requires_object |-> PBool(TRUE), show_in_object_tools |-> PBool(TRUE)]]

legacy_generate_admin_custom_message_view(view_func, label, template_name, path_fragment, requires_object, permission) ==
    [legacy_create_view(view_func, label, template_name, requires_object, permission)
     EXCEPT !.config =
        [label |-> label,
         path_fragment |-> PyOr(path_fragment, PStr(Hyphenate(view_func))),
         permission |-> permission, view_type |-> PStr(<<"message">>),
         requires_object |-> requires_object,
         show_in_object_tools |-> PBool(TRUE)]]

legacy_generate_admin_custom_json_view(view_func, label, template_name, path_fragment, requires_object, permission) ==
    [wrapped |-> TRUE, wrapper |-> "legacy_json", view_func |-> view_func,
     label |-> label, template_name |-> template_name,
     requires_object |-> requires_object,
     config |->
        [label |-> label,
         path_fragment |-> PyOr(path_fragment, PStr(Hyphenate(view_func))),
         permission |-> permission, view_type |-> PStr(<<"json">>),
         requires_object |-> requires_object,
         show_in_object_tools |-> PBool(TRUE)]]

LegacyViewTypes == {"list", "form", "message", "json"}

\* One turn of the loop of AdminBoostModel.__init__: the view built for a
\* decorated method, the arguments bound by position as the calls write them.
LegacyGenerate(meta) ==
    LET view_type == meta.view_type
        label == meta.label
        template_name == PyOr(meta.template_name, PStr(T_message))
        path_fragment == meta.path_fragment
        requires_object == ResolveRequiresObject(meta)
        permission == meta.permission
    IN CASE view_type = "list" ->
              LET view == IF Truthy(requires_object)
                          THEN legacy_generate_admin_custom_form_view(
                                   meta.name, label, template_name, path_fragment,
                                   permission)
                          ELSE legacy_generate_admin_custom_list_view(
                                   meta.name, label, template_name, path_fragment,
                                   permission)
              IN [view EXCEPT !.config = DictUpdate(@,
                      [view_type |-> PStr(<<"list">>),
                       requires_object |-> requires_object,
                       show_in_object_tools |-> PBool(TRUE)])]
         [] view_type = "form" ->
              [legacy_generate_admin_custom_form_view(
                   meta.name, label, template_name, path_fragment, permission)
               EXCEPT !.config = DictUpdate(@,
                      [requires_object |-> requires_object,
                       show_in_object_tools |-> PBool(TRUE)])]
         [] view_type = "message" ->
              \* (original_method, label, path_fragment, requires_object, permission)
              legacy_generate_admin_custom_message_view(
                  meta.name, label, path_fragment, requires_object, permission,
                  PStr(<<"view">>))
         [] view_type = "json" ->
              legacy_generate_admin_custom_json_view(
                  meta.name, label, path_fragment, requires_object, permission,
                  PStr(<<"view">>))

\* AdminBoostModel.__init__ (django_admin_boost): decorated public methods of
\* a known view type are replaced on the instance; boost_views is not touched.
LegacyConstruct ==
    /\ cls.package = "django_admin_boost.admin"
    /\ Len(instances) < MaxInstances
    /\ urls = NoUrls
    /\ instances' = Append(instances,
          [bv_shared |-> TRUE, bv_items |-> <<>>,
           attrs |-> [a \in DOMAIN cls.methods |->
                IF StartsWithUnderscore(a)
                   \/ cls.methods[a].view_type \notin LegacyViewTypes
                THEN Unwrapped(a)
                ELSE LegacyGenerate(cls.methods[a])]])
    /\ UNCHANGED <<cls, urls, req, resp, calls, user_messages, base_fields>>

\* AdminBoostModel.get_urls (django_admin_boost): requires_object defaults to
\* True and is tested for truth.
legacy_get_urls(i) ==
    LET names == BoostViewsOf(i)
        config(n) == instances[i].attrs[n].config
        kept == SelectSeq(names, LAMBDA n :
                    /\ HasAttr(i, n)
                    /\ instances[i].attrs[n].wrapped
                    /\ ConfigTruthy(config(n)))
        boost_urls == [k \in 1..Len(kept) |->
            LET path_fragment == PyOr(DictGet(config(kept[k]), "path_fragment", PNone),
                                      PStr(Hyphenate(kept[k])))
                requires_object == DictGet(config(kept[k]), "requires_object",
                                           PBool(TRUE))
            IN [route |-> IF Truthy(requires_object)
                          THEN <<"<path:object_id>", "/">> \o Format(path_fragment)
                               \o <<"/">>
                          ELSE Format(path_fragment) \o <<"/">>,
                name |-> UrlName(kept[k]),
                callback |-> kept[k]]]
    IN boost_urls \o InheritedUrls

LegacyGetUrls ==
    \E i \in 1..Len(instances) :
        /\ cls.package = "django_admin_boost.admin"
        /\ urls' = [inst |-> i, names |-> BoostViewsOf(i),
                    patterns |-> legacy_get_urls(i)]
        /\ UNCHANGED <<cls, instances, req, resp, calls, user_messages, base_fields>>

\* Admin classes of the older package: one decorated view of each type, with
\* and without an explicit requires_object, listed in boost_views.
LegacyClasses ==
    { [package |-> "django_admin_boost.admin",
       boost_views |-> [kind |-> "list", items |-> <<N_stu>>],
       methods |-> [a \in {N_stu} |->
            Meta(N_stu, vt, PNone, pf, ro, perm, ps)]] :
        vt \in LegacyViewTypes \cup {UnknownViewType}, pf \in FragmentChoices,
        ro \in RequiresObjectChoices, perm \in {<<"view">>, <<"change">>},
        ps \in ParamLists }

InitLegacy ==
    /\ cls \in LegacyClasses
    /\ instances = <<>>
    /\ urls = NoUrls
    /\ req = NoRequest
    /\ resp = NoResponse
    /\ calls = <<>>
    /\ user_messages = <<>>
    /\ base_fields = DeclaredFields

NextLegacy == LegacyConstruct \/ LegacyGetUrls

SpecLegacy == InitLegacy /\ [][NextLegacy]_vars

----------------------------------------------------------------------------
(* Requests: the framework side the views call into.                       *)

\* django.contrib.admin.utils.unquote: "_5F" in a URL stands for "_".
Unquote(token) == IF token = <<"_5F">> THEN <<"_">> ELSE token

\* Object ids as they appear in a URL: two that name rows (one of them
\* quoted) and one that names none.
ObjectTokens == {<<"7">>, <<"_5F">>, <<"9">>}

\* The rows of the model's table, by primary key.
ExistingPks == {<<"7">>, <<"_">>}

\* model_admin.get_object(request, pk): the row, or None.
get_object(pk) == IF pk \in ExistingPks THEN [t |-> "obj", pk |-> pk] ELSE PNone

PDict(d) == [t |-> "dict", d |-> d]
EmptyDict == <<>>

\* Truthiness extended to dicts and lists (empty ones are falsy).
PyTruthy(v) ==
    CASE v.t = "dict" -> DOMAIN v.d # {}
      [] v.t \in {"list", "odict"} -> Len(v.items) > 0
      [] OTHER -> Truthy(v)

TemplateResponse(template_name, context) ==
    [t |-> "response", cls |-> "TemplateResponse", status |-> 200,
     template_name |-> template_name, context |-> context]
PList(items) == [t |-> "list", items |-> items]

\* What the JSON encoder can serialise: None, booleans, strings, and lists and
\* mappings of such values.
RECURSIVE JsonSerializable(_)
JsonSerializable(v) ==
    CASE v.t \in {"None", "bool", "str"} -> TRUE
      [] v.t = "dict" -> \A k \in DOMAIN v.d : JsonSerializable(v.d[k])
      [] v.t = "list" -> \A k \in 1..Len(v.items) : JsonSerializable(v.items[k])
      [] OTHER -> FALSE

\* json.dumps(data): the JSON text, as a tree of JSON values.
RECURSIVE JsonDumps(_)
JsonDumps(v) ==
    CASE v.t = "None" -> [j |-> "null"]
      [] v.t = "bool" -> [j |-> IF v.b THEN "true" ELSE "false"]
      [] v.t = "str" -> [j |-> "string", chars |-> v.s]
      [] v.t = "dict" -> [j |-> "object",
                          members |-> [k \in DOMAIN v.d |-> JsonDumps(v.d[k])]]
      [] v.t = "list" -> [j |-> "array",
                          elements |-> [k \in 1..Len(v.items) |-> JsonDumps(v.items[k])]]

\* json.loads(text): the value a client reads from the JSON text.
RECURSIVE JsonLoads(_)
JsonLoads(x) ==
    CASE x.j = "null" -> PNone
      [] x.j = "true" -> PBool(TRUE)
      [] x.j = "false" -> PBool(FALSE)
      [] x.j = "string" -> PStr(x.chars)
      [] x.j = "object" -> PDict([k \in DOMAIN x.members |-> JsonLoads(x.members[k])])
      [] x.j = "array" ->
            PList([k \in 1..Len(x.elements) |-> JsonLoads(x.elements[k])])

\* A JsonResponse constructor that refuses every non-mapping, as safe=True does.
JsonResponseRaises_Safe(data, safe) == data.t # "dict" \/ ~JsonSerializable(data)

\* JsonResponse(data, safe=...) raises TypeError for a non-mapping when safe
\* is true, and for a value the encoder cannot serialise.
JsonResponseRaises(data, safe) ==
    (safe /\ data.t # "dict") \/ ~JsonSerializable(data)

JsonResponse(data, safe) ==
    [t |-> "response", cls |-> "JsonResponse", content |-> JsonDumps(data)]
HttpResponseRedirect(to) == [t |-> "response", cls |-> "HttpResponseRedirect", to |-> to]

\* model_admin._get_obj_does_not_exist_redirect(request, opts, object_id)
ObjDoesNotExistRedirect(object_id) ==
    [t |-> "response", cls |-> "HttpResponseRedirect", to |-> <<"admin:index">>,
     missing |-> object_id]

\* Responses a handler may build itself.
HandlerHttpResponse == [t |-> "response", cls |-> "HttpResponse"]
HandlerStreamingResponse == [t |-> "response", cls |-> "StreamingHttpResponse"]

\* isinstance(payload, (HttpResponse, HttpResponseBase)) / isinstance(payload, HttpResponse)
IsHttpResponseBase(v) == v.t = "response"
IsHttpResponse(v) == v.t = "response" /\ v.cls # "StreamingHttpResponse"

\* reverse("admin:<app>_<model>_<name>", args=[arg])
Reverse(name, args) == [t |-> "url", name |-> name, args |-> args]

\* The row whose change form an admin change URL opens.
ChangeFormTarget(url) == Unquote(url.args[1])

Returned(value) == [kind |-> "returned", value |-> value]
Raised(exc) == [kind |-> "raised", exc |-> exc]

\* An argument the call did not pass.
NotPassed == [t |-> "absent"]

\* One invocation of the wrapped handler, as the view made it.
HandlerCall(with_obj, obj, confirmed, form) ==
    [fn |-> "view_func", with_obj |-> with_obj, obj |-> obj,
     confirmed |-> confirmed, form |-> form]

\* The framework's permission decisions for the requester.
has_view_permission(r, obj) == IF obj = PNone THEN r.user.view_model ELSE r.user.view_obj
has_add_permission(r) == r.user.add
has_change_permission(r, obj) == r.user.change
has_delete_permission(r, obj) == r.user.delete

\* A mapping in declaration order: a sequence of <<name, label>> pairs.
OrderedDict(items) == [t |-> "odict", items |-> items]

\* getattr(self, name, default)
GetAttr(name, default) ==
    IF name \in DOMAIN cls.attrs.declared THEN cls.attrs.declared[name] ELSE default

\* An override that grants change as soon as the attribute is declared.
AdminBoostModel_has_change_permission_AttrPresent(r, obj) ==
    IF GetAttr("changeform_actions", PNone) # PNone THEN TRUE
    ELSE has_change_permission(r, obj)

\* AdminBoostModel.has_change_permission (admin/model.py)
AdminBoostModel_has_change_permission(r, obj) ==
    IF PyTruthy(GetAttr("changeform_actions", PNone)) THEN TRUE
    ELSE has_change_permission(r, obj)

----------------------------------------------------------------------------
(* django_boosted: the generated views (admin/views/*.py).  Each operator  *)
(* gives the outcome of one call of the wrapper and the handler calls it   *)
(* made.                                                                   *)

Outcome(out, handler_calls) == [out |-> out, calls |-> handler_calls]

\* A permission check that lets every list-level request through.
_check_permissions_NoModelCheck(r, object_id) ==
    IF Truthy(object_id)
    THEN LET obj == get_object(Unquote(object_id.s))
         IN IF obj = PNone
            THEN [obj |-> PNone, redirect |-> ObjDoesNotExistRedirect(object_id),
                  raised |-> FALSE]
            ELSE IF ~has_view_permission(r, obj)
            THEN [obj |-> PNone, redirect |-> PNone, raised |-> TRUE]
            ELSE [obj |-> obj, redirect |-> PNone, raised |-> FALSE]
    ELSE [obj |-> PNone, redirect |-> PNone, raised |-> FALSE]

\* A permission check made on the model before the object is looked up.
_check_permissions_PermissionFirst(r, object_id) ==
    IF ~has_view_permission(r, PNone)
    THEN [obj |-> PNone, redirect |-> PNone, raised |-> TRUE]
    ELSE IF Truthy(object_id)
    THEN LET obj == get_object(Unquote(object_id.s))
         IN IF obj = PNone
            THEN [obj |-> PNone, redirect |-> ObjDoesNotExistRedirect(object_id),
                  raised |-> FALSE]
            ELSE [obj |-> obj, redirect |-> PNone, raised |-> FALSE]
    ELSE [obj |-> PNone, redirect |-> PNone, raised |-> FALSE]

_check_permissions(r, object_id) ==
    IF Truthy(object_id)
    THEN LET obj == get_object(Unquote(object_id.s))
         IN IF obj = PNone
            THEN [obj |-> PNone, redirect |-> ObjDoesNotExistRedirect(object_id),
                  raised |-> FALSE]
            ELSE IF ~has_view_permission(r, obj)
            THEN [obj |-> PNone, redirect |-> PNone, raised |-> TRUE]
            ELSE [obj |-> obj, redirect |-> PNone, raised |-> FALSE]
    ELSE IF ~has_view_permission(r, PNone)
         THEN [obj |-> PNone, redirect |-> PNone, raised |-> TRUE]
         ELSE [obj |-> PNone, redirect |-> PNone, raised |-> FALSE]

_build_base_context(r, obj) ==
    LET context == [site_title |-> PStr(<<"Site">>),
                    opts |-> PStr(AppLabel \o <<".">> \o ModelName),
                    app_label |-> PStr(AppLabel),
                    model_name |-> PStr(ModelName),
                    has_view_permission |-> PBool(has_view_permission(r, obj)),
                    has_add_permission |-> PBool(has_add_permission(r)),
                    has_change_permission |->
                        PBool(AdminBoostModel_has_change_permission(r, obj)),
                    has_delete_permission |-> PBool(has_delete_permission(r, obj))]
    IN IF PyTruthy(obj)
       THEN DictUpdate(context,
                [object |-> obj, original |-> obj, object_id |-> PStr(obj.pk),
                 original_url |-> Reverse("change", <<obj.pk>>),
                 changelist_url |-> Reverse("changelist", <<>>)])
       ELSE DictUpdate(context, [changelist_url |-> Reverse("changelist", <<>>)])

\* A render in which the base context wins over the handler's entries.
RenderPayload_ContextWins(template_name, context, payload, handler_calls) ==
    IF IsHttpResponseBase(payload) THEN Outcome(Returned(payload), handler_calls)
    ELSE IF PyTruthy(payload) /\ payload.t # "dict"
    THEN Outcome(Raised("ValueError"), handler_calls)
    ELSE Outcome(Returned(TemplateResponse(template_name,
                    IF PyTruthy(payload) THEN DictUpdate(payload.d, context)
                    ELSE context)), handler_calls)

\* The tail every template view shares: return a response the handler built,
\* else merge a truthy payload into the context and render.
RenderPayload(template_name, context, payload, handler_calls) ==
    IF IsHttpResponseBase(payload) THEN Outcome(Returned(payload), handler_calls)
    ELSE IF PyTruthy(payload) /\ payload.t # "dict"
    THEN Outcome(Raised("ValueError"), handler_calls)
    ELSE Outcome(Returned(TemplateResponse(template_name,
                    IF PyTruthy(payload) THEN DictUpdate(context, payload.d)
                    ELSE context)), handler_calls)

\* base.py _create_view: the two wrappers, chosen by config.requires_object.
create_view_wrapper(v, r) ==
    LET object_branch == Truthy(v.requires_object)
        checked == _check_permissions(r, IF object_branch THEN r.object_id ELSE PNone)
        context == DictUpdate(_build_base_context(r, checked.obj), [title |-> v.label])
        handler_calls == <<HandlerCall(object_branch, checked.obj, FALSE, NotPassed)>>
    IN IF checked.raised THEN Outcome(Raised("PermissionDenied"), <<>>)
       ELSE IF PyTruthy(checked.redirect) THEN Outcome(Returned(checked.redirect), <<>>)
       ELSE RenderPayload(v.template_name, context, r.ret, handler_calls)

\* json.py
json_wrapper(v, r) ==
    LET object_branch == Truthy(v.requires_object)
        checked == _check_permissions(r, IF object_branch THEN r.object_id ELSE PNone)
        handler_calls == <<HandlerCall(object_branch, checked.obj, FALSE, NotPassed)>>
    IN IF checked.raised THEN Outcome(Raised("PermissionDenied"), <<>>)
       ELSE IF PyTruthy(checked.redirect) THEN Outcome(Returned(checked.redirect), <<>>)
       ELSE IF IsHttpResponseBase(r.ret) THEN Outcome(Returned(r.ret), handler_calls)
       ELSE IF JsonResponseRaises(r.ret, FALSE)
       THEN Outcome(Raised("TypeError"), handler_calls)
       ELSE Outcome(Returned(JsonResponse(r.ret, FALSE)), handler_calls)

\* A resolver that sends every redirect to the admin index.
ResolveUrl_AlwaysIndex(to) == <<"/admin/">>

\* django.shortcuts.redirect(to) resolves its argument: the name of a URL
\* pattern is reversed, a URL string is used as it is.
ResolveUrl(to) == IF to = <<"admin:index">> THEN <<"/admin/">> ELSE to

\* redirect.py _generate_redirect_view
redirect_wrapper(v, r) ==
    LET object_branch == Truthy(v.requires_object)
        checked == _check_permissions(r, IF object_branch THEN r.object_id ELSE PNone)
        handler_calls == <<HandlerCall(object_branch, checked.obj, FALSE, NotPassed)>>
    IN IF checked.raised THEN Outcome(Raised("PermissionDenied"), <<>>)
       ELSE IF PyTruthy(checked.redirect) THEN Outcome(Returned(checked.redirect), <<>>)
       ELSE IF IsHttpResponseBase(r.ret) THEN Outcome(Returned(r.ret), handler_calls)
       ELSE IF r.ret.t = "str"
       THEN Outcome(Returned(HttpResponseRedirect(ResolveUrl(r.ret.s))), handler_calls)
       ELSE Outcome(Returned(HttpResponseRedirect(ResolveUrl(<<"admin:index">>))),
                    handler_calls)

\* A dict without some keys.
DictWithout(d, keys) == [k \in (DOMAIN d) \ keys |-> d[k]]

\* list.py
list_wrapper(v, r) ==
    LET object_branch == Truthy(v.requires_object)
        checked == _check_permissions(r, IF object_branch THEN r.object_id ELSE PNone)
        handler_calls == <<HandlerCall(object_branch, checked.obj, FALSE, NotPassed)>>
        payload == IF PyTruthy(r.ret) THEN r.ret ELSE PDict(EmptyDict)
        context == DictUpdate(_build_base_context(r, checked.obj),
                       [title |-> v.label, cl |-> PStr(<<"changelist">>),
                        has_filters |-> PBool("list_filter" \in DOMAIN payload.d)])
    IN IF checked.raised THEN Outcome(Raised("PermissionDenied"), <<>>)
       ELSE IF PyTruthy(checked.redirect) THEN Outcome(Returned(checked.redirect), <<>>)
       ELSE IF IsHttpResponseBase(r.ret) THEN Outcome(Returned(r.ret), handler_calls)
       ELSE IF payload.t # "dict" THEN Outcome(Raised("AttributeError"), handler_calls)
       ELSE Outcome(Returned(TemplateResponse(v.template_name,
                DictUpdate(context, DictWithout(payload.d,
                    {"queryset", "list_display", "list_filter", "search_fields"})))),
                handler_calls)

\* A test that takes any submitted action for a confirmation.
IsConfirmAction_AnyAction(action) == action # PNone

\* action == "confirm", for action = request.POST.get("action")
IsConfirmAction(action) == action = PStr(<<"confirm">>)

\* confirm.py
confirm_wrapper(v, r) ==
    LET object_branch == Truthy(v.requires_object)
        checked == _check_permissions(r, IF object_branch THEN r.object_id ELSE PNone)
        confirmed_calls == <<HandlerCall(object_branch, checked.obj, TRUE, NotPassed)>>
        handler_calls == <<HandlerCall(object_branch, checked.obj, FALSE, NotPassed)>>
        fallback == Reverse("changelist", <<>>)
        context == DictUpdate(_build_base_context(r, checked.obj),
                       [title |-> v.label,
                        confirm_message |->
                            IF r.ret.t = "dict"
                            THEN DictGet(r.ret.d, "confirm", PStr(<<"Are you sure?">>))
                            ELSE PNone])
    IN IF checked.raised THEN Outcome(Raised("PermissionDenied"), <<>>)
       ELSE IF PyTruthy(checked.redirect) THEN Outcome(Returned(checked.redirect), <<>>)
       ELSE IF r.method = "POST"
       THEN IF IsConfirmAction(r.post_action)
            THEN IF IsHttpResponseBase(r.ret)
                 THEN Outcome(Returned(r.ret), confirmed_calls)
                 ELSE Outcome(Returned(HttpResponseRedirect(fallback)), confirmed_calls)
            ELSE Outcome(Returned(HttpResponseRedirect(fallback)), <<>>)
       ELSE IF IsHttpResponseBase(r.ret) THEN Outcome(Returned(r.ret), handler_calls)
       ELSE IF r.ret.t # "dict" THEN Outcome(Raised("AttributeError"), handler_calls)
       ELSE Outcome(Returned(TemplateResponse(v.template_name,
                DictUpdate(context, DictWithout(r.ret.d, {"confirm", "choices"})))),
                handler_calls)

\* A form instance: its class, whether it is bound to POST data, and whether
\* that data validates.
Form(form_class, bound, valid) ==
    [t |-> "form", form_class |-> form_class, bound |-> bound, valid |-> valid]

\* A reading of the return value that takes a string for a form.
PayloadForm_AcceptsStr(payload) ==
    IF payload.t = "dict" THEN DictGet(payload.d, "form", PNone)
    ELSE IF payload.t \in {"form", "str"} THEN Form("CountryForm", FALSE, FALSE)
    ELSE PNone

\* The form an adminform handler's return value carries, or None.
PayloadForm(payload) ==
    IF payload.t = "dict" THEN DictGet(payload.d, "form", PNone)
    ELSE IF payload.t = "form" THEN payload
    ELSE PNone

\* raise ValueError(f"{view_func.__name__} must return a form or a dict with
\* a 'form' key")
MustReturnForm(view_func) ==
    [kind |-> "raised", exc |-> "ValueError",
     msg |-> view_func \o <<" must return a form or a dict with a 'form' key">>]

\* adminform.py
adminform_wrapper(v, r) ==
    LET object_branch == Truthy(v.requires_object)
        checked == _check_permissions(r, IF object_branch THEN r.object_id ELSE PNone)
        first_call == HandlerCall(object_branch, checked.obj, FALSE, NotPassed)
        form0 == PayloadForm(r.ret)
        bound_form == Form(form0.form_class, TRUE, r.form_valid)
        second_call == HandlerCall(object_branch, checked.obj, FALSE, bound_form)
        posted_valid == r.method = "POST" /\ r.form_valid
        result == r.ret2
        form1 == IF r.method # "POST" THEN form0
                 ELSE IF r.form_valid /\ result.t = "dict"
                 THEN DictGet(result.d, "form", bound_form)
                 ELSE bound_form
        payload == IF posted_valid
                   THEN IF result.t = "dict" THEN result ELSE r.ret
                   ELSE IF r.method = "POST" /\ r.ret.t = "dict"
                   THEN PDict(DictUpdate(r.ret.d, [form |-> bound_form]))
                   ELSE r.ret
        form2 == IF payload.t = "dict" /\ "form" \in DOMAIN payload.d
                 THEN payload.d["form"] ELSE form1
        context == DictUpdate(_build_base_context(r, checked.obj),
                       [title |-> v.label, adminform |-> form2, show_save |-> PBool(TRUE)])
        all_calls == IF posted_valid THEN <<first_call, second_call>> ELSE <<first_call>>
    IN IF checked.raised THEN Outcome(Raised("PermissionDenied"), <<>>)
       ELSE IF PyTruthy(checked.redirect) THEN Outcome(Returned(checked.redirect), <<>>)
       ELSE IF IsHttpResponseBase(r.ret) THEN Outcome(Returned(r.ret), <<first_call>>)
       ELSE IF form0 = PNone THEN Outcome(MustReturnForm(v.view_func), <<first_call>>)
       ELSE IF posted_valid /\ IsHttpResponseBase(result)
       THEN Outcome(Returned(result), all_calls)
       ELSE IF posted_valid /\ result.t = "dict" /\ "redirect_url" \in DOMAIN result.d
       THEN Outcome(Returned(HttpResponseRedirect(result.d["redirect_url"].s)), all_calls)
       ELSE IF form2 = PNone THEN Outcome(Raised("AttributeError"), all_calls)
       ELSE Outcome(Returned(TemplateResponse(v.template_name,
                IF payload.t = "dict"
                THEN DictUpdate(context, DictWithout(payload.d,
                        {"form", "has_add_permission", "has_change_permission",
                         "has_delete_permission"}))
                ELSE context)), all_calls)

\* Calling the view stored on the instance.
CallBoostView(v, r) ==
    CASE v.wrapper = "create_view" -> create_view_wrapper(v, r)
      [] v.wrapper = "json" -> json_wrapper(v, r)
      [] v.wrapper = "redirect" -> redirect_wrapper(v, r)
      [] v.wrapper = "list" -> list_wrapper(v, r)
      [] v.wrapper = "confirm" -> confirm_wrapper(v, r)
      [] v.wrapper = "adminform" -> adminform_wrapper(v, r)

----------------------------------------------------------------------------
(* django_admin_boost: the admin_boost_object_view decorator               *)
(* (decorators.py) and the AdminBoostMixin (mixins.py).                    *)

\* The decorator's keyword arguments and the handler it decorates.
ObjectViewArgs(name, label, template_name, path_fragment, permission, show_in_object_tools, form, raw_id_fields, autocomplete_fields, params) ==
    [name |-> name, label |-> label, template_name |-> template_name,
     path_fragment |-> path_fragment, permission |-> permission,
     show_in_object_tools |-> show_in_object_tools, form |-> form,
     raw_id_fields |-> raw_id_fields, autocomplete_fields |-> autocomplete_fields,
     params |-> params]

\* field_name in (names or [])
InNames(field_name, names) ==
    PyTruthy(names) /\ \E k \in 1..Len(names.items) : names.items[k] = field_name

\* A widget pass that tests autocomplete_fields before raw_id_fields.
_apply_admin_widgets_to_form_AutoFirst(fields, raw_id_fields, autocomplete_fields) ==
    [field_name \in DOMAIN fields |->
        IF ~fields[field_name].queryset THEN fields[field_name]
        ELSE IF InNames(field_name, autocomplete_fields)
        THEN [fields[field_name] EXCEPT !.widget = "AutocompleteSelect"]
        ELSE IF InNames(field_name, raw_id_fields)
        THEN [fields[field_name] EXCEPT !.widget = "ForeignKeyRawIdWidget"]
        ELSE fields[field_name]]

\* _apply_admin_widgets_to_form(form_class, model_admin, raw_id_fields,
\* autocomplete_fields): the base_fields of the form class after the call.
\* A field without a queryset is skipped; the raw-id test comes first.  The
\* widget constructors only store their arguments and the field lookup reads
\* attributes every model field has, so the except branch is not taken.
_apply_admin_widgets_to_form(fields, raw_id_fields, autocomplete_fields) ==
    [field_name \in DOMAIN fields |->
        IF ~fields[field_name].queryset THEN fields[field_name]
        ELSE IF InNames(field_name, raw_id_fields)
        THEN [fields[field_name] EXCEPT !.widget = "ForeignKeyRawIdWidget"]
        ELSE IF InNames(field_name, autocomplete_fields)
        THEN [fields[field_name] EXCEPT !.widget = "AutocompleteSelect"]
        ELSE fields[field_name]]

\* admin_boost_object_view(...)(view_func): the wrapper and its config.
admin_boost_object_view(args) ==
    [wrapped |-> TRUE, wrapper |-> "object_view", view_func |-> args.name,
     label |-> args.label, template_name |-> args.template_name,
     permission |-> args.permission, form |-> args.form, params |-> args.params,
     raw_id_fields |-> args.raw_id_fields,
     autocomplete_fields |-> args.autocomplete_fields,
     config |-> [label |-> args.label, template_name |-> args.template_name,
                 path_fragment |-> args.path_fragment,
                 permission |-> args.permission,
                 show_in_object_tools |-> args.show_in_object_tools,
                 form |-> args.form, raw_id_fields |-> args.raw_id_fields,
                 autocomplete_fields |-> args.autocomplete_fields]]

\* ModelAdmin.has_view_or_change_permission
has_view_or_change_permission(r, obj) ==
    has_view_permission(r, obj) \/ has_change_permission(r, obj)

\* A checker that maps every permission to has_view_or_change_permission.
permission_checker_ViewOrChange(permission, r, obj) ==
    has_view_or_change_permission(r, obj)

\* _resolve_permission_checker(permission)(admin_instance, request, obj)
permission_checker(permission, r, obj) ==
    IF permission = PStr(<<"change">>) THEN has_change_permission(r, obj)
    ELSE IF permission = PStr(<<"delete">>) THEN has_delete_permission(r, obj)
    ELSE IF permission = PStr(<<"add">>) THEN has_add_permission(r)
    ELSE has_view_or_change_permission(r, obj)

\* A signature test that knows only the name 'form'.
AcceptsForm_FormOnly(params) == Len(params) > 3 /\ params[4] = "form"

\* len(params) > 3 and params[3] in ("form", "form_instance")
AcceptsForm(params) == Len(params) > 3 /\ params[4] \in {"form", "form_instance"}

ApplyWidgetsCall == [fn |-> "_apply_admin_widgets_to_form"]
FormInitCall(bound) == [fn |-> "form", bound |-> bound]

\* The wrapper the decorator returns, called by the URL resolver.
object_view_wrapper(v, r) ==
    LET obj == get_object(Unquote(r.object_id.s))
        has_form == PyTruthy(v.form)
        posted == r.method = "POST"
        form_instance == IF ~has_form THEN PNone
                         ELSE Form(v.form.s, posted, posted /\ r.form_valid)
        form_calls == IF has_form THEN <<ApplyWidgetsCall, FormInitCall(posted)>>
                      ELSE <<>>
        the_call == HandlerCall(TRUE, obj, FALSE,
                        IF AcceptsForm(v.params) THEN form_instance ELSE NotPassed)
        valid_post == has_form /\ posted /\ r.form_valid
        fields_after == IF has_form
                        THEN _apply_admin_widgets_to_form(
                                 base_fields, v.raw_id_fields, v.autocomplete_fields)
                        ELSE base_fields
        context == DictUpdate(
            [site_title |-> PStr(<<"Site">>),
             opts |-> PStr(AppLabel \o <<".">> \o ModelName),
             object |-> obj, original |-> obj, object_id |-> r.object_id,
             has_change_permission |-> PBool(has_change_permission(r, obj)),
             has_view_permission |-> PBool(has_view_permission(r, obj)),
             title |-> v.label,
             original_url |-> Reverse("change", <<r.object_id.s>>)],
            IF PyTruthy(form_instance) THEN [form |-> form_instance] ELSE EmptyDict)
    IN IF obj = PNone
       THEN [out |-> Returned(ObjDoesNotExistRedirect(r.object_id)), calls |-> <<>>,
             messages |-> <<>>, base_fields |-> base_fields]
       ELSE IF ~permission_checker(v.permission, r, obj)
       THEN [out |-> Raised("PermissionDenied"), calls |-> <<>>,
             messages |-> <<[level |-> "ERROR", text |-> "Access denied"]>>,
             base_fields |-> base_fields]
       ELSE IF valid_post
       THEN \* the handler runs before the context is built; its payload is
            \* returned if it is an HttpResponse and dropped otherwise
            IF IsHttpResponse(r.ret)
            THEN [out |-> Returned(r.ret), calls |-> Append(form_calls, the_call),
                  messages |-> <<>>,
             base_fields |-> fields_after]
            ELSE [out |-> Returned(TemplateResponse(v.template_name, context)),
                  calls |-> Append(form_calls, the_call), messages |-> <<>>,
             base_fields |-> fields_after]
       ELSE IF IsHttpResponse(r.ret)
       THEN [out |-> Returned(r.ret), calls |-> Append(form_calls, the_call),
             messages |-> <<>>,
             base_fields |-> fields_after]
       ELSE IF PyTruthy(r.ret) /\ r.ret.t # "dict"
       THEN [out |-> Raised("ValueError"), calls |-> Append(form_calls, the_call),
             messages |-> <<>>,
             base_fields |-> fields_after]
       ELSE [out |-> Returned(TemplateResponse(v.template_name,
                        IF PyTruthy(r.ret) THEN DictUpdate(context, r.ret.d)
                        ELSE context)),
             calls |-> Append(form_calls, the_call), messages |-> <<>>,
             base_fields |-> fields_after]

\* ModelAdmin.__init__ of a class using the mixin: nothing is scanned; the
\* instance sees the class's boost_views and its decorated methods.
MixinConstruct ==
    /\ cls.package = "django_admin_boost"
    /\ instances = <<>>
    /\ instances' = <<[bv_shared |-> TRUE, bv_items |-> <<>>,
                       attrs |-> [a \in DOMAIN cls.methods |->
                                     admin_boost_object_view(cls.methods[a])]]>>
    /\ UNCHANGED <<cls, urls, req, resp, calls, user_messages, base_fields>>

\* AdminBoostMixin.get_boost_view_names / get_boost_view_config
get_boost_view_names(i) == BoostViewsOf(i)
get_boost_view_config(i, view_name) ==
    IF HasAttr(i, view_name) THEN instances[i].attrs[view_name].config ELSE PNone

\* reverse("admin:<app>_<model>_<view_name>", args=[object_id])
get_boost_object_tools(i, object_id) ==
    LET names == get_boost_view_names(i)
        shown == SelectSeq(names, LAMBDA n :
                    /\ ConfigTruthy(get_boost_view_config(i, n))
                    /\ Truthy(DictGet(get_boost_view_config(i, n),
                                      "show_in_object_tools", PBool(TRUE))))
    IN [k \in 1..Len(shown) |->
           [label |-> get_boost_view_config(i, shown[k])["label"],
            url |-> Reverse(shown[k], <<object_id.s>>)]]

\* AdminBoostMixin.get_urls: every boost view is routed with an object id.
mixin_get_urls(i) ==
    LET names == get_boost_view_names(i)
        kept == SelectSeq(names, LAMBDA n :
                    HasAttr(i, n) /\ ConfigTruthy(get_boost_view_config(i, n)))
        boost_urls == [k \in 1..Len(kept) |->
            [route |-> <<"<path:object_id>", "/">>
                       \o Format(PyOr(DictGet(get_boost_view_config(i, kept[k]),
                                              "path_fragment", PNone),
                                      PStr(Hyphenate(kept[k]))))
                       \o <<"/">>,
             name |-> UrlName(kept[k]),
             callback |-> kept[k]]]
    IN boost_urls \o InheritedUrls

MixinGetUrls ==
    /\ cls.package = "django_admin_boost"
    /\ Len(instances) = 1
    /\ req = NoRequest
    /\ urls = NoUrls
    /\ urls' = [inst |-> 1, names |-> get_boost_view_names(1),
                patterns |-> mixin_get_urls(1)]
    /\ UNCHANGED <<cls, instances, req, resp, calls, user_messages, base_fields>>

\* The view the URL resolver found, called with the request.
CallView(v, r) ==
    IF v.wrapper = "object_view" THEN object_view_wrapper(v, r)
    ELSE [out |-> CallBoostView(v, r).out, calls |-> CallBoostView(v, r).calls,
          messages |-> <<>>, base_fields |-> base_fields]

MaxExtraItems == 2

\* Items a caller may already have put under object_tools_items.
CallerItem(n) == [label |-> PStr(<<"Caller">>), url |-> Reverse(<<"caller">>, <<n>>)]
CallerItems(n) == [k \in 1..n |-> CallerItem(k)]

\* A changeform_view that puts the boost items ahead of the caller's.
changeform_view_BoostFirst(i, object_id, extra_context) ==
    LET context == IF PyTruthy(extra_context) THEN extra_context.d ELSE EmptyDict
        items == get_boost_object_tools(i, object_id)
                 \o (IF PyTruthy(DictGet(context, "object_tools_items", PNone))
                     THEN context["object_tools_items"].items ELSE <<>>)
    IN [object_id |-> object_id,
        extra_context |->
            IF Truthy(object_id)
            THEN DictUpdate(context,
                     [object_tools_items |-> [t |-> "list", items |-> items]])
            ELSE context]

\* AdminBoostMixin.changeform_view: what it hands to super().changeform_view.
changeform_view(i, object_id, extra_context) ==
    LET context == IF PyTruthy(extra_context) THEN extra_context.d ELSE EmptyDict
        items == (IF PyTruthy(DictGet(context, "object_tools_items", PNone))
                  THEN context["object_tools_items"].items ELSE <<>>)
                 \o get_boost_object_tools(i, object_id)
    IN [object_id |-> object_id,
        extra_context |->
            IF Truthy(object_id)
            THEN DictUpdate(context,
                     [object_tools_items |-> [t |-> "list", items |-> items]])
            ELSE context]

ChangeformView ==
    \E object_id \in {PNone} \cup {PStr(tok) : tok \in ObjectTokens},
       n \in 0..MaxExtraItems, with_context \in BOOLEAN, with_key \in BOOLEAN :
        /\ cls.package = "django_admin_boost"
        /\ urls.inst # 0
        /\ req = NoRequest
        /\ with_key => with_context
        /\ (n > 0) => with_key
        /\ LET extra_context ==
                   IF ~with_context THEN PNone
                   ELSE IF ~with_key THEN PDict([caller_key |-> PStr(<<"kept">>)])
                   ELSE PDict([caller_key |-> PStr(<<"kept">>),
                               object_tools_items |->
                                   [t |-> "list", items |-> CallerItems(n)]])
           IN /\ req' = [kind |-> "changeform", inst |-> urls.inst,
                         object_id |-> object_id, extra_context |-> extra_context]
              /\ resp' = [kind |-> "super_changeform_view",
                          passed |-> changeform_view(urls.inst, object_id, extra_context)]
        /\ UNCHANGED <<cls, instances, urls, calls, user_messages, base_fields>>

----------------------------------------------------------------------------
(* Requests to the views of both packages (Spec).                          *)

Users ==
    [view_model : BOOLEAN, view_obj : BOOLEAN, change : BOOLEAN,
     delete : BOOLEAN, add : BOOLEAN]

\* What the handler of an adminform view may return besides: a form, or a
\* mapping whose 'form' entry is None.
FormReturns == {Form("CountryForm", FALSE, FALSE), PDict([form |-> PNone])}

\* What a handler may return.
HandlerReturns ==
    { PNone, PDict(EmptyDict), PDict([message |-> PStr(<<"hi">>)]),
      PDict([title |-> PStr(<<"Mine">>), site_title |-> PStr(<<"Other">>)]),
      PDict([form |-> Form("CountryForm", FALSE, FALSE)]),
      PList(<<PStr(<<"a">>)>>),
      PStr(<<"/next/">>), HandlerHttpResponse, HandlerStreamingResponse }

RequestRecord(i, view, routed, method, object_id, user, post_action, form_valid, ret, ret2) ==
    [kind |-> "boost", inst |-> i, view |-> view, routed |-> routed,
     method |-> method, object_id |-> object_id, user |-> user,
     post_action |-> post_action, form_valid |-> form_valid,
     ret |-> ret, ret2 |-> ret2]

\* The URL resolver calls the view a pattern of the URLconf names, with the
\* object id the route captured (none for a route without one).  A handler
\* return value is drawn for each call the view makes of the handler.
Request ==
    \E k \in 1..Len(urls.patterns), method \in {"GET", "POST"}, user \in Users :
        /\ urls.inst # 0
        /\ req = NoRequest
        /\ k <= Len(urls.patterns) - Len(InheritedUrls)
        /\ LET i == urls.inst
               name == urls.patterns[k].callback
               v == instances[i].attrs[name]
               routed == urls.patterns[k].route[1] = "<path:object_id>"
               posted == method = "POST"
           IN \E object_id \in (IF routed THEN {PStr(tok) : tok \in ObjectTokens}
                                ELSE {PNone}),
                 post_action \in (IF v.wrapper = "confirm" /\ posted
                                  THEN {PNone, PStr(<<"confirm">>), PStr(<<"cancel">>)}
                                  ELSE {PNone}),
                 form_valid \in (IF /\ posted
                                    /\ \/ v.wrapper = "adminform"
                                       \/ /\ v.wrapper = "object_view"
                                          /\ PyTruthy(v.form)
                                 THEN BOOLEAN ELSE {FALSE}) :
                LET r0 == RequestRecord(i, name, routed, method, object_id, user,
                                        post_action, form_valid, PNone, PNone)
                IN \E ret \in (IF Len(CallView(v, r0).calls) = 0 THEN {PNone}
                               ELSE IF v.wrapper = "adminform"
                               THEN HandlerReturns \cup FormReturns
                               ELSE HandlerReturns) :
                     LET r1 == [r0 EXCEPT !.ret = ret]
                     IN \E ret2 \in (IF Len(CallView(v, r1).calls) > 1
                                     THEN HandlerReturns ELSE {PNone}) :
                          LET r == [r1 EXCEPT !.ret2 = ret2]
                              done == CallView(v, r)
                          IN /\ req' = r
                             /\ resp' = done.out
                             /\ calls' = done.calls
                             /\ user_messages' = done.messages
                             /\ base_fields' = done.base_fields
        /\ UNCHANGED <<cls, instances, urls>>

\* The response is sent and the request cycle ends.
Finish ==
    /\ req # NoRequest
    /\ req' = NoRequest
    /\ resp' = NoResponse
    /\ calls' = <<>>
    /\ user_messages' = <<>>
    /\ UNCHANGED <<cls, instances, urls, base_fields>>

\* One decorated view of every type, list-level or object-level, declared
\* with each permission.
ViewClasses ==
    { [package |-> "django_boosted",
       boost_views |-> [kind |-> "tuple", items |-> <<>>],
       methods |-> [a \in {N_stu} |->
            Meta(N_stu, vt, PNone, PNone, PBool(ro), perm,
                 IF ro THEN <<"self", "request", "obj">> ELSE <<"self", "request">>)],
       attrs |-> NoAttrs] :
        vt \in ViewTypes, ro \in BOOLEAN, perm \in Permissions }

\* Classes using the mixin: one decorated view with each permission, with
\* and without a form; one view with a form and raw_id_fields and
\* autocomplete_fields given or not; or two views, shown or not in the object tools, under
\* a boost_views that also names an attribute the class does not have.
MixinClasses ==
    { [package |-> "django_admin_boost",
       boost_views |-> [kind |-> "list", items |-> <<N_stu>>],
       methods |-> [a \in {N_stu} |->
            ObjectViewArgs(N_stu, PStr(<<"Stu">>), PStr(GivenTemplate), PNone, perm,
                           PBool(TRUE), form, PNone, PNone, params)]] :
        perm \in {PStr(p) : p \in Permissions \cup {<<"publish">>}},
        form \in {PNone, PStr(<<"CountryForm">>)},
        params \in {<<"self", "request", "obj">>,
                    <<"self", "request", "obj", "form">>} }
    \cup
    { [package |-> "django_admin_boost",
       boost_views |-> [kind |-> "list", items |-> <<N_stu>>],
       methods |-> [a \in {N_stu} |->
            ObjectViewArgs(N_stu, PStr(<<"Stu">>), PStr(GivenTemplate), PNone,
                           PStr(<<"view">>), PBool(TRUE), PStr(<<"CountryForm">>),
                           raw, auto, <<"self", "request", "obj", "form_instance">>)]] :
        raw \in {PNone, PList(<<"company", "note">>)},
        auto \in {PNone, PList(<<>>), PList(<<"company", "owner", "note">>)} }
    \cup
    { [package |-> "django_admin_boost",
       boost_views |-> [kind |-> "list", items |-> items],
       methods |-> [a \in {N_stu, N_w} |->
            IF a = N_stu
            THEN ObjectViewArgs(N_stu, PStr(<<"Stu">>), PStr(GivenTemplate), pf,
                                PStr(<<"view">>), PBool(show_stu), PNone, PNone, PNone,
                                <<"self", "request", "obj">>)
            ELSE ObjectViewArgs(N_w, PStr(<<"W">>), PStr(GivenTemplate), PNone,
                                PStr(<<"view">>), PBool(show_w), PNone, PNone, PNone,
                                <<"self", "request", "obj">>)]] :
        items \in {<<N_w, N_stu>>, <<N_stu, N_ghost, N_w>>, <<N_w>>},
        pf \in {PNone, PStr(GivenFragment)},
        show_stu \in BOOLEAN, show_w \in BOOLEAN }

Init ==
    /\ cls \in ViewClasses \cup MixinClasses
    /\ instances = <<>>
    /\ urls = NoUrls
    /\ req = NoRequest
    /\ resp = NoResponse
    /\ calls = <<>>
    /\ user_messages = <<>>
    /\ base_fields = DeclaredFields

Next ==
    \/ Construct
    \/ GetUrls
    \/ MixinConstruct
    \/ MixinGetUrls
    \/ Request
    \/ ChangeformView
    \/ Finish

Spec == Init /\ [][Next]_vars

----------------------------------------------------------------------------
(* django_boosted: the change-form actions of AdminBoostModel              *)
(* (admin/model.py): has_change_permission and get_submit_actions          *)
(* (SpecActions).                                                          *)

\* The names of the actions; "change" is the one whose permission method,
\* has_change_permission(request, obj=None), every admin has.
ActionNames == {"approve", "reject", "change"}

\* has_<action>_permission attributes a class may declare: a method (its
\* result depends on the requester or on the object) or a plain value.
CallablePerm(how) == [t |-> "callable", how |-> how]

\* hasattr(self, f"has_{action}_permission")
HasPermAttr(action) == action = "change" \/ action \in DOMAIN cls.attrs.perms

\* perm_method(request, obj) for a callable attribute.
CallPerm(action, r, obj) ==
    IF action \in DOMAIN cls.attrs.perms
    THEN CASE cls.attrs.perms[action].how = "user_add" -> PBool(r.user.add)
           [] cls.attrs.perms[action].how = "needs_obj" -> PBool(obj # PNone)
    ELSE PBool(AdminBoostModel_has_change_permission(r, obj))

\* A permission lookup that denies an action without a permission attribute.
get_action_permission_AbsentDenies(r, action, obj) ==
    IF HasPermAttr(action)
    THEN IF action \in DOMAIN cls.attrs.perms /\ cls.attrs.perms[action].t # "callable"
         THEN cls.attrs.perms[action]
         ELSE CallPerm(action, r, obj)
    ELSE PBool(FALSE)

\* AdminBoostModel.get_action_permission
get_action_permission(r, action, obj) ==
    IF HasPermAttr(action)
    THEN IF action \in DOMAIN cls.attrs.perms /\ cls.attrs.perms[action].t # "callable"
         THEN cls.attrs.perms[action]
         ELSE CallPerm(action, r, obj)
    ELSE PBool(TRUE)

\* AdminBoostModel.get_submit_actions: None has no .items(); handle is
\* hasattr(self, f"handle_{action_name}").
get_submit_actions(r, obj) ==
    LET changeform_actions == GetAttr("changeform_actions", OrderedDict(<<>>))
    IN IF changeform_actions.t # "odict" THEN Raised("AttributeError")
       ELSE Returned(OrderedDict(SelectSeq(changeform_actions.items, LAMBDA it :
                PyTruthy(get_action_permission(r, it[1], obj)) /\ it[1] \in cls.attrs.handles)))

\* The requesters of these calls differ in the change and add decisions; obj
\* is None or a row.
ActionArgs ==
    {u \in Users : u.view_model /\ u.view_obj /\ ~u.delete} \X {PNone, get_object(<<"7">>)}

\* A call of has_change_permission(request, obj) on an instance.
HasChangePermissionCall ==
    /\ cls.package = "django_boosted"
    /\ Len(instances) > 0
    /\ req = NoRequest
    /\ \E <<u, obj>> \in ActionArgs :
        LET r == [kind |-> "has_change_permission", user |-> u, obj |-> obj]
        IN /\ req' = r
           /\ resp' = Returned(PBool(AdminBoostModel_has_change_permission(r, obj)))
    /\ UNCHANGED <<cls, instances, urls, calls, user_messages, base_fields>>

\* A call of get_submit_actions(request, obj) on an instance.
GetSubmitActionsCall ==
    /\ cls.package = "django_boosted"
    /\ Len(instances) > 0
    /\ req = NoRequest
    /\ \E <<u, obj>> \in ActionArgs :
        LET r == [kind |-> "get_submit_actions", user |-> u, obj |-> obj]
        IN /\ req' = r
           /\ resp' = get_submit_actions(r, obj)
    /\ UNCHANGED <<cls, instances, urls, calls, user_messages, base_fields>>

Label(action) == PStr(<<"Do ", action>>)

DeclaredActions ==
    { <<>>, <<<<"approve", Label("approve")>>>>,
      <<<<"reject", Label("reject")>>, <<"approve", Label("approve")>>>>,
      <<<<"approve", Label("approve")>>, <<"change", Label("change")>>,
        <<"reject", Label("reject")>>>> }

DeclaredPerms ==
    { pa @@ pr : pa \in {<<>>} \cup {[a \in {"approve"} |-> v] :
                        v \in {CallablePerm("user_add"), CallablePerm("needs_obj"),
                               PBool(TRUE), PBool(FALSE), PNone}},
                pr \in {<<>>, [a \in {"reject"} |-> CallablePerm("user_add")]} }

\* Admin classes without decorated views that declare changeform_actions
\* (a mapping, empty or not, or None) or do not have the attribute.
ActionClasses ==
    { [package |-> "django_boosted",
       boost_views |-> [kind |-> "tuple", items |-> <<>>],
       methods |-> <<>>,
       attrs |-> [declared |-> d, perms |-> p, handles |-> h]] :
        d \in {<<>>, [n \in {"changeform_actions"} |-> PNone]}
               \cup {[n \in {"changeform_actions"} |-> OrderedDict(items)] :
                        items \in DeclaredActions},
        p \in DeclaredPerms,
        h \in SUBSET ActionNames }

InitActions ==
    /\ cls \in ActionClasses
    /\ instances = <<>>
    /\ urls = NoUrls
    /\ req = NoRequest
    /\ resp = NoResponse
    /\ calls = <<>>
    /\ user_messages = <<>>
    /\ base_fields = DeclaredFields

NextActions == Construct \/ HasChangePermissionCall \/ GetSubmitActionsCall \/ Finish

SpecActions == InitActions /\ [][NextActions]_vars

----------------------------------------------------------------------------
(* Properties of construction and URL registration (SpecSetup).            *)

\* How many patterns of the last get_urls result carry the URL name of `a`.
UrlCount(a) ==
    Cardinality({k \in 1..Len(urls.patterns) : urls.patterns[k].name = UrlName(a)})

\* The patterns get_urls put ahead of the inherited ones.
BoostPart == SubSeq(urls.patterns, 1, Len(urls.patterns) - Len(InheritedUrls))

\* The names of the get_urls call that resolve to a view carrying a config.
NamesWithConfig ==
    SelectSeq(urls.names, LAMBDA n :
        /\ n \in DOMAIN instances[urls.inst].attrs
        /\ instances[urls.inst].attrs[n].wrapped)

\* C1: after construction every decorated public method whose view type has a
\* generator is replaced by a generated view and has exactly one URL
\* registered by get_urls; a decorated method with no generator or with an
\* underscore name stays unwrapped and has no URL.
C1_EachViewWrappedWithOneUrl ==
    urls.inst # 0 =>
        \A a \in DOMAIN cls.methods :
            IF ~StartsWithUnderscore(a) /\ cls.methods[a].view_type \in ViewTypes
            THEN instances[urls.inst].attrs[a].wrapped /\ UrlCount(a) = 1
            ELSE ~instances[urls.inst].attrs[a].wrapped /\ UrlCount(a) = 0

\* C2: get_urls returns, ahead of the unchanged inherited URLs, one pattern
\* per boost_views name that resolves to a view with a config, in order:
\* '<path:object_id>/<fragment>/' when the config requires an object and
\* '<fragment>/' otherwise, named '<app_label>_<model_name>_<view_name>'.
C2_GetUrlsPatterns ==
    urls.inst # 0 =>
        /\ Len(urls.patterns) >= Len(InheritedUrls)
        /\ SubSeq(urls.patterns, Len(BoostPart) + 1, Len(urls.patterns)) = InheritedUrls
        /\ Len(BoostPart) = Len(NamesWithConfig)
        /\ \A k \in 1..Len(BoostPart) :
              LET n == NamesWithConfig[k]
                  config == instances[urls.inst].attrs[n].config
                  fragment == config.path_fragment.s
              IN /\ BoostPart[k].name = <<"tests_app", "_", "country", "_">> \o n
                 /\ BoostPart[k].callback = n
                 /\ BoostPart[k].route =
                       IF config.requires_object = PBool(TRUE)
                       THEN <<"<path:object_id>", "/">> \o fragment \o <<"/">>
                       ELSE fragment \o <<"/">>

\* C2 witness: a get_urls result with an object-level and a list-level boost
\* pattern, and a boost_views name that contributed none.
C2_Witness ==
    /\ urls.inst # 0
    /\ Len(urls.names) > Len(BoostPart)
    /\ \E j, k \in 1..Len(BoostPart) :
          /\ BoostPart[j].route[1] = "<path:object_id>"
          /\ BoostPart[k].route[1] # "<path:object_id>"

\* `f` is `n` with every underscore replaced by a hyphen.
IsHyphenated(f, n) ==
    /\ Len(f) = Len(n)
    /\ \A k \in 1..Len(n) : (n[k] = "_" => f[k] = "-") /\ (n[k] # "_" => f[k] = n[k])

----------------------------------------------------------------------------
(* Properties of request handling (Spec).                                  *)

\* The view the request in progress was routed to.
ReqView == instances[req.inst].attrs[req.view]

BoostedRequest == req.kind = "boost" /\ cls.package = "django_boosted"
DecoratorRequest == req.kind = "boost" /\ cls.package = "django_admin_boost"

\* The object id of the request names a row / names none.
ReqObjectExists == req.routed /\ Unquote(req.object_id.s) \in ExistingPks
ReqObjectMissing == req.routed /\ Unquote(req.object_id.s) \notin ExistingPks

\* The requester lacks view permission: on the resolved object for an
\* object-level view, on the model for a list-level one.
LacksViewPermission ==
    IF req.routed THEN ReqObjectExists /\ ~req.user.view_obj
    ELSE ~req.user.view_model

\* C3: every view generated by django_boosted's ViewGenerator raises
\* PermissionDenied and never invokes the wrapped handler when the requester
\* lacks view permission (on the resolved object for an object-level view, on
\* the model for a list-level view).
C3_DeniedWithoutViewPermission ==
    (BoostedRequest /\ LacksViewPermission) =>
        /\ resp = Raised("PermissionDenied")
        /\ calls = <<>>

C3_Witness ==
    /\ BoostedRequest
    /\ LacksViewPermission
    /\ ~req.routed
    /\ req.user.view_obj
    /\ ReqView.wrapper = "adminform"
    /\ req.method = "POST"
    /\ resp = Raised("PermissionDenied")

\* C4: for an object-level view of either package, an object id that resolves
\* to no object gets the admin's 'object does not exist' redirect; the handler
\* is not invoked and PermissionDenied is not raised, whatever the requester's
\* permissions.
C4_MissingObjectRedirects ==
    (req.kind = "boost" /\ ReqObjectMissing) =>
        /\ resp = Returned(ObjDoesNotExistRedirect(req.object_id))
        /\ calls = <<>>
        /\ user_messages = <<>>

C4_Witness ==
    /\ req.kind = "boost"
    /\ ReqObjectMissing
    /\ ~req.user.view_obj /\ ~req.user.view_model /\ ~req.user.change
    /\ resp = Returned(ObjDoesNotExistRedirect(req.object_id))

C4_WitnessDecorator ==
    C4_Witness /\ DecoratorRequest /\ ReqView.permission = PStr(<<"delete">>)

\* The admin's check for the permission a decorator view was declared with.
DeclaredCheckPasses ==
    LET p == ReqView.permission
    IN IF p = PStr(<<"change">>) THEN req.user.change
       ELSE IF p = PStr(<<"delete">>) THEN req.user.delete
       ELSE IF p = PStr(<<"add">>) THEN req.user.add
       ELSE req.user.view_obj \/ req.user.change

\* C5: a view declared with admin_boost_object_view(permission=P) invokes its
\* handler only if the admin's check for P passes on the resolved object
\* (change, delete, add map to their own checks, anything else to
\* has_view_or_change_permission); when the check fails, an 'Access denied'
\* error message is recorded and PermissionDenied is raised with no handler
\* call and no form instantiated.
C5_DeclaredPermissionEnforced ==
    (DecoratorRequest /\ ReqObjectExists) =>
        IF DeclaredCheckPasses
        THEN /\ resp # Raised("PermissionDenied")
             /\ \E k \in 1..Len(calls) : calls[k].fn = "view_func"
             /\ user_messages = <<>>
        ELSE /\ resp = Raised("PermissionDenied")
             /\ calls = <<>>
             /\ user_messages = <<[level |-> "ERROR", text |-> "Access denied"]>>

C5_Witness ==
    /\ DecoratorRequest
    /\ ReqObjectExists
    /\ ReqView.permission = PStr(<<"delete">>)
    /\ PyTruthy(ReqView.form)
    /\ req.method = "POST"
    /\ req.user.view_obj /\ req.user.change /\ ~req.user.delete
    /\ resp = Raised("PermissionDenied")
    /\ user_messages # <<>>

\* C6: in django_boosted a view generated with permission 'change', 'delete'
\* or 'add' raises PermissionDenied for a requester who has view permission
\* but lacks that permission.
C6_GeneratedPermissionChecked ==
    (/\ BoostedRequest
     /\ req.routed => ReqObjectExists
     /\ req.user.view_obj /\ req.user.view_model
     /\ \/ ReqView.config.permission = PStr(<<"change">>) /\ ~req.user.change
        \/ ReqView.config.permission = PStr(<<"delete">>) /\ ~req.user.delete
        \/ ReqView.config.permission = PStr(<<"add">>) /\ ~req.user.add)
    => resp = Raised("PermissionDenied")

\* The requester passes the permission check of the view the request reached.
ReqPermitted ==
    IF cls.package = "django_boosted" THEN req.user.view_obj ELSE DeclaredCheckPasses

\* C10: a GET by a permitted user to an object-level URL of an existing
\* object, served by a template view (ViewGenerator._create_view or the
\* decorator's wrapper) whose handler returns a mapping or nothing, returns a
\* template response with status 200 and the declared template; its context
\* holds the object, the URL of the object's change form, every entry of the
\* handler's mapping, and the view's label as title unless the handler's
\* mapping has its own title.
C10_ObjectViewRendersContext ==
    (/\ req.kind = "boost"
     /\ ReqView.wrapper \in {"create_view", "object_view"}
     /\ req.method = "GET"
     /\ ReqObjectExists
     /\ ReqPermitted
     /\ req.ret.t \in {"dict", "None"})
    => /\ resp.kind = "returned"
       /\ resp.value.t = "response"
       /\ resp.value.cls = "TemplateResponse"
       /\ resp.value.status = 200
       /\ resp.value.template_name = ReqView.template_name
       /\ LET context == resp.value.context
              mapping == IF req.ret.t = "dict" THEN req.ret.d ELSE EmptyDict
          IN /\ {"object", "title", "original_url"} \subseteq DOMAIN context
             /\ context["object"] = [t |-> "obj", pk |-> Unquote(req.object_id.s)]
             /\ ChangeFormTarget(context["original_url"]) = Unquote(req.object_id.s)
             /\ \A key \in DOMAIN mapping : /\ key \in DOMAIN context
                                            /\ context[key] = mapping[key]
             /\ "title" \notin DOMAIN mapping => context["title"] = ReqView.label

C10_Witness ==
    /\ BoostedRequest
    /\ ReqView.wrapper = "create_view"
    /\ req.method = "GET"
    /\ req.object_id = PStr(<<"_5F">>)
    /\ req.user.view_obj
    /\ req.ret = PDict([title |-> PStr(<<"Mine">>), site_title |-> PStr(<<"Other">>)])
    /\ resp.kind = "returned"
    /\ resp.value.context["site_title"] = PStr(<<"Other">>)

C10_WitnessDecorator ==
    /\ DecoratorRequest
    /\ req.method = "GET"
    /\ ReqObjectExists
    /\ PyTruthy(ReqView.form)
    /\ req.ret = PDict([form |-> Form("CountryForm", FALSE, FALSE)])
    /\ resp.kind = "returned"
    /\ resp.value.t = "response"
    /\ resp.value.cls = "TemplateResponse"

\* The configs of the class's boost views that the object tools show.
ShownBoostViews ==
    SelectSeq(cls.boost_views.items, LAMBDA n :
        /\ n \in DOMAIN cls.methods
        /\ cls.methods[n].show_in_object_tools # PBool(FALSE))

\* C9: changeform_view called with an object id passes to the framework an
\* object_tools_items list holding the caller's items, in order, followed by
\* one {label, url} item per boost view that has a config and whose
\* show_in_object_tools is not false, in boost_views order; called without an
\* object id it passes the caller's context with no boost item added.
C9_ChangeformObjectTools ==
    req.kind = "changeform" =>
        LET given == IF PyTruthy(req.extra_context) THEN req.extra_context.d
                     ELSE EmptyDict
            given_items == IF "object_tools_items" \in DOMAIN given
                           THEN given["object_tools_items"].items ELSE <<>>
            passed == resp.passed.extra_context
        IN IF req.object_id = PNone
           THEN passed = given
           ELSE /\ DOMAIN passed = DOMAIN given \cup {"object_tools_items"}
                /\ \A key \in DOMAIN given \ {"object_tools_items"} :
                       passed[key] = given[key]
                /\ LET items == passed["object_tools_items"].items
                   IN /\ Len(items) = Len(given_items) + Len(ShownBoostViews)
                      /\ SubSeq(items, 1, Len(given_items)) = given_items
                      /\ \A k \in 1..Len(ShownBoostViews) :
                           items[Len(given_items) + k] =
                               [label |-> cls.methods[ShownBoostViews[k]].label,
                                url |-> Reverse(ShownBoostViews[k],
                                                <<req.object_id.s>>)]

C9_Witness ==
    /\ req.kind = "changeform"
    /\ req.object_id = PStr(<<"7">>)
    /\ cls.boost_views.items = <<N_stu, N_ghost, N_w>>
    /\ cls.methods[N_stu].show_in_object_tools = PBool(FALSE)
    /\ Len(resp.passed.extra_context["object_tools_items"].items) = 3
    /\ resp.passed.extra_context["object_tools_items"].items[3].label = PStr(<<"W">>)

----------------------------------------------------------------------------
(* Properties of the older AdminBoostModel (SpecLegacy).                   *)

\* The pattern get_urls registered for attribute `a` carries an object id.
ObjectLevel(a) ==
    \E k \in 1..Len(urls.patterns) :
        /\ urls.patterns[k].callback = a
        /\ urls.patterns[k].name = UrlName(a)
        /\ urls.patterns[k].route[1] = "<path:object_id>"

\* C8: when the decoration metadata leaves requires_object unset, a view is
\* object-level if and only if its handler has a parameter named 'obj' at
\* position 3 or later; an explicitly set requires_object is used as given.
C8_RequiresObjectResolved ==
    urls.inst # 0 =>
        \A a \in DOMAIN cls.methods :
            instances[urls.inst].attrs[a].wrapped =>
                LET meta == cls.methods[a]
                    expected == IF meta.requires_object = PNone
                                THEN \E i \in 3..Len(meta.params) :
                                         meta.params[i] = "obj"
                                ELSE meta.requires_object.b
                IN ObjectLevel(a) <=> expected

----------------------------------------------------------------------------
(* Properties of the form handling of admin_boost_object_view (Spec).      *)

\* The names a decorator argument lists (none when it is None or empty).
ListedNames(names) ==
    IF names.t = "list" THEN {names.items[k] : k \in 1..Len(names.items)} ELSE {}

\* The step is a request in which the wrapper ran the widget pass.
WidgetPassStep ==
    /\ req = NoRequest
    /\ req'.kind = "boost"
    /\ \E k \in 1..Len(calls') : calls'[k] = ApplyWidgetsCall

\* C11: _apply_admin_widgets_to_form gives every model-choice field named in
\* raw_id_fields a ForeignKeyRawIdWidget, every model-choice field named in
\* autocomplete_fields and not in raw_id_fields an AutocompleteSelect, and
\* leaves the widget of every other field as it was.
C11_WidgetsApplied ==
    [][WidgetPassStep =>
         LET view == instances'[req'.inst].attrs[req'.view]
             raw == ListedNames(view.raw_id_fields)
             auto == ListedNames(view.autocomplete_fields)
         IN \A f \in DOMAIN base_fields :
               /\ base_fields'[f].queryset = base_fields[f].queryset
               /\ base_fields'[f].widget =
                     IF base_fields[f].queryset /\ f \in raw
                     THEN "ForeignKeyRawIdWidget"
                     ELSE IF base_fields[f].queryset /\ f \in auto
                     THEN "AutocompleteSelect"
                     ELSE base_fields[f].widget]_vars

C11_Witness ==
    /\ DecoratorRequest
    /\ \E k \in 1..Len(calls) : calls[k] = ApplyWidgetsCall
    /\ ReqView.raw_id_fields = PList(<<"company", "note">>)
    /\ ReqView.autocomplete_fields = PList(<<"company", "owner", "note">>)
    /\ base_fields["company"].widget = "ForeignKeyRawIdWidget"
    /\ base_fields["owner"].widget = "AutocompleteSelect"
    /\ base_fields["note"].widget = "TextInput"

\* C12: handling a request changes nothing a later request reads: the form
\* class configured on admin_boost_object_view, its base_fields and their
\* widgets, are after a request what they were before it.
C12_NoSharedStateAcrossRequests ==
    [][(req = NoRequest /\ req'.kind = "boost") => base_fields' = base_fields]_vars

\* The handler calls among the calls the view made.
HandlerCalls == SelectSeq(calls, LAMBDA c : c.fn = "view_func")

\* C13: a request to an admin_boost_object_view view that passes the object
\* lookup and the permission check invokes the handler exactly once, with the
\* resolved object; a handler whose fourth parameter is 'form' or
\* 'form_instance' receives the form instance: unbound on GET, bound to the
\* POST data and validated on POST, None when no form class is configured.
C13_HandlerInvokedOnceWithForm ==
    (DecoratorRequest /\ ReqObjectExists /\ DeclaredCheckPasses) =>
        /\ Len(HandlerCalls) = 1
        /\ HandlerCalls[1].obj = [t |-> "obj", pk |-> Unquote(req.object_id.s)]
        /\ LET fourth == IF Len(ReqView.params) > 3 THEN ReqView.params[4] ELSE "none"
               passed == HandlerCalls[1].form
           IN IF fourth \notin {"form", "form_instance"} THEN passed = NotPassed
              ELSE IF ReqView.form = PNone THEN passed = PNone
              ELSE IF req.method = "GET"
              THEN passed = [t |-> "form", form_class |-> ReqView.form.s,
                             bound |-> FALSE, valid |-> FALSE]
              ELSE passed = [t |-> "form", form_class |-> ReqView.form.s,
                             bound |-> TRUE, valid |-> req.form_valid]

C13_Witness ==
    /\ DecoratorRequest
    /\ ReqObjectExists
    /\ DeclaredCheckPasses
    /\ req.method = "POST"
    /\ req.form_valid
    /\ ReqView.params = <<"self", "request", "obj", "form_instance">>
    /\ req.ret = PDict([message |-> PStr(<<"hi">>)])
    /\ Len(HandlerCalls) = 1
    /\ HandlerCalls[1].form.bound

----------------------------------------------------------------------------
(* Properties of the JSON and redirect views of django_boosted (Spec).     *)

\* The request passed the object lookup and the view-permission check.
BoostedPermitted ==
    /\ BoostedRequest
    /\ IF req.routed THEN ReqObjectExists /\ req.user.view_obj
       ELSE req.user.view_model

\* C14: a generated JSON view answers a permitted request with a JSON
\* response whose body reads back as the handler's return value, for every
\* return value that is not a response object and that JSON can carry (a
\* list, None and an empty mapping included); it never renders a template.
C14_JsonViewReturnsPayload ==
    (BoostedRequest /\ ReqView.wrapper = "json") =>
        /\ resp.kind = "returned" => resp.value.cls # "TemplateResponse"
        /\ (BoostedPermitted /\ req.ret.t \in {"None", "str", "dict", "list"}
              /\ JsonSerializable(req.ret)) =>
             /\ resp.kind = "returned"
             /\ resp.value.t = "response"
             /\ resp.value.cls = "JsonResponse"
             /\ JsonLoads(resp.value.content) = req.ret
             /\ Len(calls) = 1

C14_Witness ==
    /\ BoostedPermitted
    /\ ReqView.wrapper = "json"
    /\ req.routed
    /\ req.ret = PList(<<PStr(<<"a">>)>>)
    /\ resp.kind = "returned"
    /\ resp.value.cls = "JsonResponse"
    /\ resp.value.content.j = "array"

\* C15: a generated redirect view, for a permitted request, redirects to the
\* URL string the handler returns, returns a response object the handler
\* returns as it is, and redirects to the admin index for any other return
\* value; it never renders a template.
C15_RedirectViewOutcome ==
    (BoostedRequest /\ ReqView.wrapper = "redirect") =>
        /\ resp.kind = "returned" => resp.value.cls # "TemplateResponse"
        /\ BoostedPermitted =>
             /\ Len(calls) = 1
             /\ resp.kind = "returned"
             /\ IF req.ret.t = "response" THEN resp.value = req.ret
                ELSE /\ resp.value.cls = "HttpResponseRedirect"
                     /\ resp.value.to = IF req.ret.t = "str" THEN req.ret.s
                                        ELSE <<"/admin/">>

C15_Witness ==
    /\ BoostedPermitted
    /\ ReqView.wrapper = "redirect"
    /\ req.ret = PStr(<<"/next/">>)
    /\ resp.kind = "returned"
    /\ resp.value.cls = "HttpResponseRedirect"
    /\ resp.value.to = <<"/next/">>

ConfigKeys ==
    {"label", "path_fragment", "permission", "view_type", "requires_object",
     "show_in_object_tools"}

\* The views the generators produced on instance i.
GeneratedViews(i) == {a \in DOMAIN instances[i].attrs : instances[i].attrs[a].wrapped}

\* C16: every view a generate_admin_custom_<type>_view method produced carries
\* a configuration with the keys label, path_fragment, permission, view_type,
\* requires_object and show_in_object_tools; its view_type is the generator's
\* type, its path_fragment is a non-empty string and its requires_object is
\* the value the generator was called with.
C16_GeneratedViewConfig ==
    \A i \in 1..Len(instances) : \A a \in GeneratedViews(i) :
        LET config == instances[i].attrs[a].config
            meta == cls.methods[a]
        IN /\ config # PNone
           /\ ConfigKeys \subseteq DOMAIN config
           /\ config.view_type = PStr(<<meta.view_type>>)
           /\ meta.view_type \in ViewTypes
           /\ config.path_fragment.t = "str"
           /\ Len(config.path_fragment.s) > 0
           /\ config.requires_object = ResolveRequiresObject(meta)
           /\ config.label = meta.label
           /\ config.permission = meta.permission

C16_Witness ==
    \E i \in 1..Len(instances) : \E a \in GeneratedViews(i) :
        /\ cls.methods[a].view_type = "message"
        /\ cls.methods[a].path_fragment = PStr(<<>>)
        /\ cls.methods[a].requires_object = PBool(TRUE)
        /\ instances[i].attrs[a].config.view_type = PStr(<<"message">>)
        /\ instances[i].attrs[a].config.path_fragment = PStr(Hyphenate(a))
        /\ instances[i].attrs[a].config.requires_object = PBool(TRUE)

DeclaredActionsTruthy ==
    /\ "changeform_actions" \in DOMAIN cls.attrs.declared
    /\ cls.attrs.declared["changeform_actions"].t = "odict"
    /\ Len(cls.attrs.declared["changeform_actions"].items) > 0

\* C17: AdminBoostModel.has_change_permission returns True when the admin
\* defines non-empty changeform_actions, and the framework's decision
\* otherwise.
C17_ChangePermissionWithActions ==
    req.kind = "has_change_permission" =>
        /\ resp.kind = "returned"
        /\ resp.value = IF DeclaredActionsTruthy THEN PBool(TRUE)
                        ELSE PBool(req.user.change)

C17_Witness ==
    /\ req.kind = "has_change_permission"
    /\ DeclaredActionsTruthy
    /\ ~req.user.change
    /\ resp = Returned(PBool(TRUE))

C17_WitnessFramework ==
    /\ req.kind = "has_change_permission"
    /\ "changeform_actions" \in DOMAIN cls.attrs.declared
    /\ ~DeclaredActionsTruthy
    /\ ~req.user.change
    /\ resp = Returned(PBool(FALSE))

\* The permission check of an action as the documentation states it.
ActionPermitted(action) ==
    IF action \in DOMAIN cls.attrs.perms
    THEN CASE cls.attrs.perms[action] = CallablePerm("user_add") -> req.user.add
           [] cls.attrs.perms[action] = CallablePerm("needs_obj") -> req.obj # PNone
           [] OTHER -> cls.attrs.perms[action] = PBool(TRUE)
    ELSE TRUE

\* C18: get_submit_actions returns the entries of changeform_actions, name to
\* label in declaration order, whose permission check passes and for which a
\* handle_<name> method exists; it is empty when the admin has no
\* changeform_actions.
C18_SubmitActions ==
    (req.kind = "get_submit_actions"
        /\ GetAttr("changeform_actions", OrderedDict(<<>>)).t = "odict") =>
        /\ resp.kind = "returned"
        /\ resp.value.t = "odict"
        /\ resp.value.items =
             SelectSeq(GetAttr("changeform_actions", OrderedDict(<<>>)).items,
                       LAMBDA it : ActionPermitted(it[1]) /\ it[1] \in cls.attrs.handles)
        /\ ("changeform_actions" \notin DOMAIN cls.attrs.declared
                => resp.value.items = <<>>)

C18_Witness ==
    /\ req.kind = "get_submit_actions"
    /\ GetAttr("changeform_actions", PNone).t = "odict"
    /\ Len(GetAttr("changeform_actions", PNone).items) = 3
    /\ cls.attrs.handles = {"approve", "reject"}
    /\ "approve" \notin DOMAIN cls.attrs.perms
    /\ resp = Returned(OrderedDict(<<<<"approve", Label("approve")>>,
                                     <<"reject", Label("reject")>>>>))

\* C19: on the older AdminBoostModel a generated message or json view carries
\* the decorated path_fragment (or the hyphenated method name), the decorated
\* or inferred boolean as requires_object, and the decorated permission.
C19_LegacyMessageJsonConfig ==
    \A i \in 1..Len(instances) : \A a \in DOMAIN instances[i].attrs :
        (cls.package = "django_admin_boost.admin"
            /\ instances[i].attrs[a].wrapped
            /\ cls.methods[a].view_type \in {"message", "json"}) =>
            LET config == instances[i].attrs[a].config
                meta == cls.methods[a]
            IN /\ config.path_fragment =
                    IF Truthy(meta.path_fragment) THEN meta.path_fragment
                    ELSE PStr(Hyphenate(a))
               /\ config.requires_object = ResolveRequiresObject(meta)
               /\ instances[i].attrs[a].requires_object = ResolveRequiresObject(meta)
               /\ config.permission = meta.permission

\* What the handler returned the last time the view called it.
LastReturn == IF Len(HandlerCalls) > 1 THEN req.ret2 ELSE req.ret

\* C20: when the handler returns a response object of any kind, a streaming
\* one included, the view returns exactly that object; this holds for the
\* admin_boost_object_view decorator and for every django_boosted view.
C20_ResponsePassedThrough ==
    (req.kind = "boost" /\ Len(HandlerCalls) > 0 /\ IsHttpResponseBase(LastReturn)) =>
        resp = Returned(LastReturn)

----------------------------------------------------------------------------
(* Properties of the adminform and confirm views (Spec).                   *)

\* The handler's first return value carries a form: it is a form, or a
\* mapping whose 'form' entry is not None.
CarriesForm(ret) ==
    \/ ret.t = "form"
    \/ ret.t = "dict" /\ "form" \in DOMAIN ret.d /\ ret.d["form"] # PNone

\* C21: a generated adminform view raises a ValueError that names the handler
\* whenever the handler's first return value is neither a response object,
\* nor a form, nor a mapping whose 'form' entry is not None; no template is
\* rendered and the handler is not invoked a second time.
C21_AdminformWithoutFormRaises ==
    (BoostedPermitted /\ ReqView.wrapper = "adminform"
        /\ ~IsHttpResponseBase(req.ret) /\ ~CarriesForm(req.ret)) =>
        /\ resp.kind = "raised"
        /\ resp.exc = "ValueError"
        /\ SubSeq(resp.msg, 1, Len(ReqView.view_func)) = ReqView.view_func
        /\ Len(HandlerCalls) = 1

C21_Witness ==
    /\ BoostedPermitted
    /\ ReqView.wrapper = "adminform"
    /\ req.method = "POST"
    /\ req.form_valid
    /\ req.ret = PDict([form |-> PNone])
    /\ resp = MustReturnForm(N_stu)
    /\ Len(HandlerCalls) = 1

\* C22: with admin_boost_object_view and a configured form, whenever the
\* handler returns a mapping its entries appear in the context of the
\* rendered template, for a valid POST as for a GET or an invalid POST.
C22_MappingReachesContext ==
    (/\ DecoratorRequest
     /\ ReqView.wrapper = "object_view"
     /\ PyTruthy(ReqView.form)
     /\ ReqObjectExists
     /\ ReqPermitted
     /\ req.ret.t = "dict")
    => /\ resp.kind = "returned"
       /\ resp.value.cls = "TemplateResponse"
       /\ \A key \in DOMAIN req.ret.d :
              /\ key \in DOMAIN resp.value.context
              /\ resp.value.context[key] = req.ret.d[key]

\* C23: in a generated confirm view the handler is invoked with
\* confirmed=True only for a POST whose action is 'confirm', and then exactly
\* once; a POST with another or no action never invokes the handler and ends
\* in a redirect; a GET invokes the handler exactly once without
\* confirmed=True and does not redirect on its own.
C23_ConfirmViewCalls ==
    (BoostedRequest /\ ReqView.wrapper = "confirm") =>
        /\ (\E k \in 1..Len(HandlerCalls) : HandlerCalls[k].confirmed)
              => req.method = "POST" /\ req.post_action = PStr(<<"confirm">>)
        /\ BoostedPermitted =>
             IF req.method = "POST"
             THEN IF req.post_action = PStr(<<"confirm">>)
                  THEN Len(HandlerCalls) = 1 /\ HandlerCalls[1].confirmed
                  ELSE /\ HandlerCalls = <<>>
                       /\ resp.kind = "returned"
                       /\ resp.value.cls = "HttpResponseRedirect"
             ELSE /\ Len(HandlerCalls) = 1
                  /\ ~HandlerCalls[1].confirmed
                  /\ resp.kind = "returned" =>
                        \/ resp.value = req.ret
                        \/ resp.value.cls = "TemplateResponse"

C23_Witness ==
    /\ BoostedPermitted
    /\ ReqView.wrapper = "confirm"
    /\ req.method = "POST"
    /\ req.post_action = PStr(<<"confirm">>)
    /\ Len(HandlerCalls) = 1
    /\ HandlerCalls[1].confirmed
    /\ resp.kind = "returned"
    /\ resp.value.cls = "HttpResponseRedirect"

C23_WitnessCancel ==
    /\ BoostedPermitted
    /\ ReqView.wrapper = "confirm"
    /\ req.method = "POST"
    /\ req.post_action = PStr(<<"cancel">>)
    /\ HandlerCalls = <<>>
    /\ resp.kind = "returned"
    /\ resp.value.cls = "HttpResponseRedirect"

----------------------------------------------------------------------------
(* Properties of repeated construction (SpecSetup).                        *)

\* How many times instance i's boost_views holds the name n.
Occurrences(i, n) ==
    Cardinality({k \in 1..Len(BoostViewsOf(i)) : BoostViewsOf(i)[k] = n})

\* Every instance's boost_views holds the name of each decorated view once.
EachDecoratedNameOnce ==
    \A i \in 1..Len(instances) : \A a \in DOMAIN cls.methods :
        Occurrences(i, cls.methods[a].name) = 1

\* No two patterns of the get_urls result carry the same URL name.
UrlNamesDistinct ==
    \A j, k \in 1..Len(urls.patterns) :
        urls.patterns[j].name = urls.patterns[k].name => j = k

\* C24: constructing AdminBoostModel instances never modifies the class-level
\* boost_views; after any number of constructions each instance's boost_views
\* holds the name of each decorated view exactly once, for a tuple as for a
\* list, and get_urls never registers two patterns with the same URL name.
C24_ConstructionKeepsBoostViews ==
    [][/\ cls'.boost_views = cls.boost_views
       /\ EachDecoratedNameOnce'
       /\ UrlNamesDistinct']_vars

====
